---- MODULE Spec2Model ----
(***************************************************************************)
(* Custom RISC-V instruction display of gdb/python/lib/gdb/custominsn.py   *)
(* together with the registry of gdb/python/lib/gdb/disassembler.py.       *)
(*                                                                         *)
(* Representation.                                                         *)
(*  - A Python str is a sequence of one-character strings.                 *)
(*  - A non-negative Python int that is used as a bit pattern (instruction *)
(*    word, insn, mask) is the set of the positions of its one bits, so    *)
(*    that | is union, & is intersection and << k adds k to every          *)
(*    position; 32-bit patterns with bit 31 set stay exact.                *)
(*  - Field values and addresses below 2^31 are integers.                  *)
(***************************************************************************)
EXTENDS Integers, Sequences, FiniteSets, TLC

VARIABLES
  enabled,    \* custom_instruction_display_p.value
  path,       \* custom_instruction_path.value
  conns,      \* the target connections that currently exist in gdb
  selected,   \* gdb.selected_inferior().connection ("None" when there is none)
  cache,      \* riscv_disassembler._disassembler_cache: connection -> session
  epoch,      \* history: number of 'set custom-instruction-filename' so far
  nextId,     \* history: number of CustomInstructionHandler objects built so far
  out,        \* what the last handler did (the DisassembleInfo after __call__)
  _disassembly_registry,  \* gdb.disassembler: architecture -> disassembler
  _print_insn             \* gdb.disassembler: the entry point gdb calls

reg_vars == <<_disassembly_registry, _print_insn>>
vars == <<enabled, path, conns, selected, cache, epoch, nextId, out,
          _disassembly_registry, _print_insn>>

----------------------------------------------------------------------------
(* Python int and str primitives.                                          *)

Min(a, b) == IF a < b THEN a ELSE b
Max(a, b) == IF a > b THEN a ELSE b

\* The bit pattern of a small non-negative int.
ToBits(n) == {i \in 0..30 : (n \div (2^i)) % 2 = 1}

\* x << k
Shl(w, k) == {i + k : i \in w}

\* x | y and x & y
BitOr(a, b) == a \cup b
BitAnd(a, b) == a \cap b

\* The int of a bit pattern below 2^31.
RECURSIVE FromBits(_)
FromBits(w) ==
  IF w = {} THEN 0
  ELSE LET i == CHOOSE j \in w : TRUE IN (2^i) + FromBits(w \ {i})

\* a | b | ... on small non-negative ints
OrAll(xs) == FromBits(UNION {ToBits(xs[i]) : i \in 1..Len(xs)})

\* int.bit_length()
BitLength(w) == IF w = {} THEN 0 ELSE 1 + (CHOOSE i \in w : \A j \in w : j <= i)

\* format(byte_stream, '0Nb')[::-1]: the binary digits, zero-padded to at
\* least `width` digits, least significant first; element i+1 is bit i.
raw_bits_of(byte_stream, width) ==
  [i \in 1..Max(width, BitLength(byte_stream)) |->
     IF (i - 1) \in byte_stream THEN 1 ELSE 0]

\* int(digits, 2) for a sequence of binary digits, most significant first.
RECURSIVE IntBase2(_)
IntBase2(ds) ==
  IF ds = <<>> THEN 0
  ELSE 2 * IntBase2(SubSeq(ds, 1, Len(ds) - 1)) + ds[Len(ds)]

\* int(raw_bits[start:stop:-1], 2): the slice walks down from index `start`
\* (clamped to the last index) to index stop+1, both 0-based.
SliceDown(raw_bits, start, stop) ==
  LET s == Min(start, Len(raw_bits) - 1)
  IN  IntBase2([k \in 1..(IF s > stop THEN s - stop ELSE 0) |-> raw_bits[(s - k + 1) + 1]])

\* int(raw_bits[:stop:-1], 2): the slice starts at the last index.
SliceFromTop(raw_bits, stop) == SliceDown(raw_bits, Len(raw_bits) - 1, stop)

\* int(raw_bits[i], 2)
BitAt(raw_bits, i) == raw_bits[i + 1]

HexChars == <<"0","1","2","3","4","5","6","7","8","9","a","b","c","d","e","f">>
HexCharSet == {HexChars[i] : i \in 1..16}
HexVal(c) == (CHOOSE i \in 1..16 : HexChars[i] = c) - 1

\* Whether int(s, 16) succeeds on an attribute string (no sign, no prefix in
\* the alphabet used here); it raises ValueError otherwise.
IsHex(s) == Len(s) > 0 /\ \A i \in 1..Len(s) : s[i] \in HexCharSet

RECURSIVE ParseHex(_)
ParseHex(s) ==
  IF s = <<>> THEN 0
  ELSE 16 * ParseHex(SubSeq(s, 1, Len(s) - 1)) + HexVal(s[Len(s)])

\* The digits of a positive int in base b, most significant first.
RECURSIVE Digits(_, _)
Digits(n, b) ==
  IF n < b THEN <<HexChars[n + 1]>>
  ELSE Digits(n \div b, b) \o <<HexChars[(n % b) + 1]>>

\* str(n) for an int
StrInt(n) == IF n < 0 THEN <<"-">> \o Digits(-n, 10) ELSE Digits(n, 10)

\* hex(n)
hex(n) == IF n < 0 THEN <<"-","0","x">> \o Digits(-n, 16)
          ELSE <<"0","x">> \o Digits(n, 16)

\* s.startswith(p)
StartsWith(s, p) == Len(s) >= Len(p) /\ SubSeq(s, 1, Len(p)) = p

\* A replacement of the leftmost occurrence only.
RECURSIVE ReplaceFirst(_, _, _)
ReplaceFirst(s, f, v) ==
  IF Len(s) < Len(f) THEN s
  ELSE IF SubSeq(s, 1, Len(f)) = f
       THEN v \o SubSeq(s, Len(f) + 1, Len(s))
       ELSE <<s[1]>> \o ReplaceFirst(Tail(s), f, v)

\* s.replace(f, v): every non-overlapping occurrence, scanning from the left.
RECURSIVE Replace(_, _, _)
Replace(s, f, v) ==
  IF Len(s) < Len(f) THEN s
  ELSE IF SubSeq(s, 1, Len(f)) = f
       THEN v \o Replace(SubSeq(s, Len(f) + 1, Len(s)), f, v)
       ELSE <<s[1]>> \o Replace(Tail(s), f, v)

----------------------------------------------------------------------------
(* class Insn: register tables, identifiers and masks.                     *)

x_reg_names ==
  << <<"z","e","r","o">>, <<"r","a">>, <<"s","p">>, <<"g","p">>,
     <<"t","p">>, <<"t","0">>, <<"t","1">>, <<"t","2">>,
     <<"f","p">>, <<"s","1">>, <<"a","0">>, <<"a","1">>,
     <<"a","2">>, <<"a","3">>, <<"a","4">>, <<"a","5">>,
     <<"a","6">>, <<"a","7">>, <<"s","2">>, <<"s","3">>,
     <<"s","4">>, <<"s","5">>, <<"s","6">>, <<"s","7">>,
     <<"s","8">>, <<"s","9">>, <<"s","1","0">>, <<"s","1","1">>,
     <<"t","3">>, <<"t","4">>, <<"t","5">>, <<"t","6">> >>

cx_reg_names ==
  << <<"f","p">>, <<"s","1">>, <<"a","0">>, <<"a","1">>,
     <<"a","2">>, <<"a","3">>, <<"a","4">>, <<"a","5">> >>

\* self is the record of the attributes set so far; funct3/funct4/funct7
\* are -1 while they are None.
gen_opfunc3funct7_instr(self) ==
  BitOr(BitOr(ToBits(self.opcode), Shl(ToBits(self.funct3), 12)),
        Shl(ToBits(self.funct7), 25))

gen_opfunc3_instr(self) ==
  BitOr(ToBits(self.opcode), Shl(ToBits(self.funct3), 12))

gen_op_instr(self) == ToBits(self.opcode)

gen_c_opfunc4_instr(self) ==
  BitOr(ToBits(self.opcode), Shl(ToBits(self.funct4), 12))

gen_c_opfunc3_instr(self) ==
  BitOr(ToBits(self.opcode), Shl(ToBits(self.funct3), 13))

gen_opfunc3funct7_mask ==
  BitOr(BitOr(ToBits(127), Shl(ToBits(7), 12)), Shl(ToBits(127), 25))

gen_opfunc3_mask == BitOr(ToBits(127), Shl(ToBits(7), 12))

gen_op_mask == ToBits(127)

gen_c_opfunc4_mask == BitOr(ToBits(3), Shl(ToBits(15), 12))

\* A three-bit function code mask that also covers bit 12.
gen_c_opfunc3_mask_wide == BitOr(ToBits(3), Shl(ToBits(15), 12))

gen_c_opfunc3_mask == BitOr(ToBits(3), Shl(ToBits(7), 13))

----------------------------------------------------------------------------
(* Construction of the instruction objects from an XML element.  An        *)
(* element's attrib is a function from attribute names to strings.  A      *)
(* constructor yields [exc, obj]: exc is "none" or the name of the          *)
(* exception that the first failing attribute read raises.                 *)

Rd(a, isHex) == [a |-> a, hex |-> isHex]

\* The reads of Insn.__init__, in order.
InsnReads == <<Rd("opcode", TRUE), Rd("str", FALSE), Rd("type", FALSE)>>

\* elem.attrib[a] raises KeyError when a is missing; int(.., 16) raises
\* ValueError on a string that is not hexadecimal.
RECURSIVE AttrExc(_, _)
AttrExc(attrib, reads) ==
  IF reads = <<>> THEN "none"
  ELSE LET r == Head(reads)
       IN  IF r.a \notin DOMAIN attrib THEN "KeyError"
           ELSE IF r.hex /\ ~IsHex(attrib[r.a]) THEN "ValueError"
           ELSE AttrExc(attrib, Tail(reads))

Raise(e) == [exc |-> e, obj |-> <<>>]
Return(o) == [exc |-> "none", obj |-> o]

Insn_init(attrib) ==
  [opcode |-> ParseHex(attrib["opcode"]),
   format_string |-> attrib["str"],
   type |-> attrib["type"],
   funct3 |-> -1, funct4 |-> -1, funct7 |-> -1]

Obj(cls, self, insn, mask, len) ==
  [cls |-> cls, opcode |-> self.opcode, format_string |-> self.format_string,
   type |-> self.type, funct3 |-> self.funct3, funct4 |-> self.funct4,
   funct7 |-> self.funct7, insn |-> insn, mask |-> mask, len |-> len]

WithFunct3(attrib) ==
  [Insn_init(attrib) EXCEPT !.funct3 = ParseHex(attrib["funct3"])]

R_Insn(attrib) ==
  LET exc == AttrExc(attrib, InsnReads \o <<Rd("funct3", TRUE), Rd("funct7", TRUE)>>)
      self == [WithFunct3(attrib) EXCEPT !.funct7 = ParseHex(attrib["funct7"])]
  IN  IF exc # "none" THEN Raise(exc)
      ELSE Return(Obj("R", self, gen_opfunc3funct7_instr(self), gen_opfunc3funct7_mask, 4))

\* I, S and B share the constructor body.
ISB_Insn(cls, attrib) ==
  LET exc == AttrExc(attrib, InsnReads \o <<Rd("funct3", TRUE)>>)
      self == WithFunct3(attrib)
  IN  IF exc # "none" THEN Raise(exc)
      ELSE Return(Obj(cls, self, gen_opfunc3_instr(self), gen_opfunc3_mask, 4))

I_Insn(attrib) == ISB_Insn("I", attrib)
S_Insn(attrib) == ISB_Insn("S", attrib)
B_Insn(attrib) == ISB_Insn("B", attrib)

\* U and J share the constructor body.
UJ_Insn(cls, attrib) ==
  LET exc == AttrExc(attrib, InsnReads)
      self == Insn_init(attrib)
  IN  IF exc # "none" THEN Raise(exc)
      ELSE Return(Obj(cls, self, gen_op_instr(self), gen_op_mask, 4))

U_Insn(attrib) == UJ_Insn("U", attrib)
J_Insn(attrib) == UJ_Insn("J", attrib)

CR_Insn(attrib) ==
  LET exc == AttrExc(attrib, InsnReads \o <<Rd("funct4", TRUE)>>)
      self == [Insn_init(attrib) EXCEPT !.funct4 = ParseHex(attrib["funct4"])]
  IN  IF exc # "none" THEN Raise(exc)
      ELSE Return(Obj("CR", self, gen_c_opfunc4_instr(self), gen_c_opfunc4_mask, 2))

\* CI, CSS, CIW, CL, CS, CB and CJ share the constructor body.
C3_Insn(cls, attrib) ==
  LET exc == AttrExc(attrib, InsnReads \o <<Rd("funct3", TRUE)>>)
      self == WithFunct3(attrib)
  IN  IF exc # "none" THEN Raise(exc)
      ELSE Return(Obj(cls, self, gen_c_opfunc3_instr(self), gen_c_opfunc3_mask, 2))

CI_Insn(attrib) == C3_Insn("CI", attrib)
CSS_Insn(attrib) == C3_Insn("CSS", attrib)
CIW_Insn(attrib) == C3_Insn("CIW", attrib)
CL_Insn(attrib) == C3_Insn("CL", attrib)
CS_Insn(attrib) == C3_Insn("CS", attrib)
CB_Insn(attrib) == C3_Insn("CB", attrib)
CJ_Insn(attrib) == C3_Insn("CJ", attrib)

----------------------------------------------------------------------------
(* gen_instr_assembly: the field dictionaries.  A dict is the sequence of  *)
(* its items in insertion order; a value is a str or an int.               *)

StrV(s) == [t |-> "str", s |-> s, n |-> 0]
IntV(n) == [t |-> "int", s |-> <<>>, n |-> n]
Item(k, v) == [k |-> k, v |-> v]

\* k in fields, and fields[k]
HasKey(fields, k) == \E i \in 1..Len(fields) : fields[i].k = k
Get(fields, k) == fields[CHOOSE i \in 1..Len(fields) : fields[i].k = k].v

\* (uimm & mask2) - (uimm & mask1) with mask1 = 1 << b and mask2 = mask1 - 1
SignFold(uimm, b) == (uimm % (2^b)) - (((uimm \div (2^b)) % 2) * (2^b))

R_fields(byte_stream, info) ==
  LET raw_bits == raw_bits_of(byte_stream, 32)
      rd == SliceDown(raw_bits, 11, 6)
      rs1 == SliceDown(raw_bits, 19, 14)
      rs2 == SliceDown(raw_bits, 24, 19)
  IN  << Item("rd", StrV(x_reg_names[rd + 1])),
         Item("rs1", StrV(x_reg_names[rs1 + 1])),
         Item("rs2", StrV(x_reg_names[rs2 + 1])) >>

I_fields(byte_stream, info) ==
  LET raw_bits == raw_bits_of(byte_stream, 32)
      rd == SliceDown(raw_bits, 11, 6)
      rs1 == SliceDown(raw_bits, 19, 14)
      uimm == SliceFromTop(raw_bits, 19)
  IN  << Item("rd", StrV(x_reg_names[rd + 1])),
         Item("rs1", StrV(x_reg_names[rs1 + 1])),
         Item("uimm", IntV(uimm)),
         Item("imm", IntV(SignFold(uimm, 11))) >>

S_fields(byte_stream, info) ==
  LET raw_bits == raw_bits_of(byte_stream, 32)
      rs1 == SliceDown(raw_bits, 19, 14)
      rs2 == SliceDown(raw_bits, 24, 19)
      uimm == OrAll(<< SliceDown(raw_bits, 11, 6),
                      SliceFromTop(raw_bits, 24) * (2^5) >>)
  IN  << Item("rs1", StrV(x_reg_names[rs1 + 1])),
         Item("rs2", StrV(x_reg_names[rs2 + 1])),
         Item("uimm", IntV(uimm)),
         Item("imm", IntV(SignFold(uimm, 11))) >>

\* A B decoder that keeps the offsets of the word in uimm and imm.
B_fields_offsets(byte_stream, info) ==
  LET raw_bits == raw_bits_of(byte_stream, 32)
      rs1 == SliceDown(raw_bits, 19, 14)
      rs2 == SliceDown(raw_bits, 24, 19)
      uimm == OrAll(<< SliceDown(raw_bits, 11, 7) * (2^1),
                      SliceDown(raw_bits, 30, 24) * (2^5),
                      BitAt(raw_bits, 7) * (2^11),
                      BitAt(raw_bits, 31) * (2^12) >>)
  IN  << Item("rs1", StrV(x_reg_names[rs1 + 1])),
         Item("rs2", StrV(x_reg_names[rs2 + 1])),
         Item("uimm", IntV(uimm)),
         Item("imm", IntV(SignFold(uimm, 12))) >>

B_fields(byte_stream, info) ==
  LET raw_bits == raw_bits_of(byte_stream, 32)
      rs1 == SliceDown(raw_bits, 19, 14)
      rs2 == SliceDown(raw_bits, 24, 19)
      uimm == OrAll(<< SliceDown(raw_bits, 11, 7) * (2^1),
                      SliceDown(raw_bits, 30, 24) * (2^5),
                      BitAt(raw_bits, 7) * (2^11),
                      BitAt(raw_bits, 31) * (2^12) >>)
  IN  << Item("rs1", StrV(x_reg_names[rs1 + 1])),
         Item("rs2", StrV(x_reg_names[rs2 + 1])),
         Item("uimm", StrV(hex(info.address + uimm))),
         Item("imm", StrV(hex(info.address + SignFold(uimm, 12)))) >>

U_fields(byte_stream, info) ==
  LET raw_bits == raw_bits_of(byte_stream, 32)
      rd == SliceDown(raw_bits, 11, 6)
      \* (x << 12) >> 12 of the 20-bit slice
      uimm == SliceFromTop(raw_bits, 11)
  IN  << Item("rd", StrV(x_reg_names[rd + 1])),
         Item("uimm", IntV(uimm)),
         Item("imm", IntV(uimm)) >>

J_fields(byte_stream, info) ==
  LET raw_bits == raw_bits_of(byte_stream, 32)
      rd == SliceDown(raw_bits, 11, 6)
      uimm == OrAll(<< SliceDown(raw_bits, 19, 11) * (2^12),
                      BitAt(raw_bits, 20) * (2^11),
                      SliceDown(raw_bits, 30, 20) * (2^1),
                      BitAt(raw_bits, 31) * (2^20) >>)
  IN  << Item("rd", StrV(x_reg_names[rd + 1])),
         Item("uimm", StrV(hex(info.address + uimm))),
         Item("imm", StrV(hex(info.address + SignFold(uimm, 20)))) >>

CR_fields(byte_stream, info) ==
  LET raw_bits == raw_bits_of(byte_stream, 16)
      rs2 == SliceDown(raw_bits, 6, 1)
      rds1 == SliceDown(raw_bits, 11, 6)
  IN  << Item("rs2", StrV(x_reg_names[rs2 + 1])),
         Item("rs1", StrV(x_reg_names[rds1 + 1])),
         Item("rd", StrV(x_reg_names[rds1 + 1])) >>

CI_fields(byte_stream, info) ==
  LET raw_bits == raw_bits_of(byte_stream, 16)
      rd == SliceDown(raw_bits, 11, 6)
      uimm == OrAll(<< SliceDown(raw_bits, 6, 1),
                      BitAt(raw_bits, 12) * (2^5) >>)
  IN  << Item("rd", StrV(x_reg_names[rd + 1])),
         Item("rs1", StrV(x_reg_names[rd + 1])),
         Item("uimm", IntV(uimm)),
         Item("imm", IntV(SignFold(uimm, 5))) >>

CSS_fields(byte_stream, info) ==
  LET raw_bits == raw_bits_of(byte_stream, 16)
      rd == SliceDown(raw_bits, 11, 6)
      uimm == OrAll(<< SliceDown(raw_bits, 12, 8) * (2^2),
                      SliceDown(raw_bits, 8, 6) * (2^6) >>)
  IN  << Item("rd", StrV(x_reg_names[rd + 1])),
         Item("rs2", StrV(x_reg_names[rd + 1])),
         Item("rs1", StrV(x_reg_names[rd + 1])),
         Item("uimm", IntV(uimm)),
         Item("imm", IntV(SignFold(uimm, 7))) >>

CIW_fields(byte_stream, info) ==
  LET raw_bits == raw_bits_of(byte_stream, 16)
      rd == SliceDown(raw_bits, 4, 1)
      uimm == OrAll(<< BitAt(raw_bits, 5) * (2^3),
                      BitAt(raw_bits, 6) * (2^2),
                      SliceDown(raw_bits, 12, 10) * (2^4),
                      SliceDown(raw_bits, 10, 6) * (2^6) >>)
  IN  << Item("rd", StrV(cx_reg_names[rd + 1])),
         Item("uimm", IntV(uimm)),
         Item("imm", IntV(SignFold(uimm, 9))) >>

CL_fields(byte_stream, info) ==
  LET raw_bits == raw_bits_of(byte_stream, 16)
      rd == SliceDown(raw_bits, 4, 1)
      rs1 == SliceDown(raw_bits, 9, 6)
      uimm == OrAll(<< BitAt(raw_bits, 5) * (2^2),
                      BitAt(raw_bits, 6) * (2^6),
                      SliceDown(raw_bits, 12, 10) * (2^3) >>)
  IN  << Item("rd", StrV(cx_reg_names[rd + 1])),
         Item("rs1", StrV(cx_reg_names[rs1 + 1])),
         Item("uimm", IntV(uimm)),
         Item("imm", IntV(SignFold(uimm, 6))) >>

\* A CS decoder whose upper immediate slice holds word bits 12 to 9.
CS_fields_wide(byte_stream, info) ==
  LET raw_bits == raw_bits_of(byte_stream, 16)
      rd == SliceDown(raw_bits, 4, 1)
      rs2 == SliceDown(raw_bits, 9, 6)
      uimm == OrAll(<< SliceDown(raw_bits, 6, 4) * (2^0),
                      SliceDown(raw_bits, 12, 8) * (2^2) >>)
  IN  << Item("rd", StrV(cx_reg_names[rd + 1])),
         Item("rs1", StrV(cx_reg_names[rd + 1])),
         Item("rs2", StrV(cx_reg_names[rs2 + 1])),
         Item("uimm", IntV(uimm)),
         Item("imm", IntV(SignFold(uimm, 4))) >>

CS_fields(byte_stream, info) ==
  LET raw_bits == raw_bits_of(byte_stream, 16)
      rd == SliceDown(raw_bits, 4, 1)
      rs2 == SliceDown(raw_bits, 9, 6)
      uimm == OrAll(<< SliceDown(raw_bits, 6, 4) * (2^0),
                      SliceDown(raw_bits, 12, 9) * (2^2) >>)
  IN  << Item("rd", StrV(cx_reg_names[rd + 1])),
         Item("rs1", StrV(cx_reg_names[rd + 1])),
         Item("rs2", StrV(cx_reg_names[rs2 + 1])),
         Item("uimm", IntV(uimm)),
         Item("imm", IntV(SignFold(uimm, 4))) >>

CB_fields(byte_stream, info) ==
  LET raw_bits == raw_bits_of(byte_stream, 16)
      rs1 == SliceDown(raw_bits, 9, 6)
      uimm == OrAll(<< BitAt(raw_bits, 2) * (2^5),
                      SliceDown(raw_bits, 6, 2) * (2^1),
                      SliceDown(raw_bits, 12, 9) * (2^6) >>)
  IN  << Item("rs1", StrV(cx_reg_names[rs1 + 1])),
         Item("uimm", IntV(uimm)),
         Item("imm", IntV(SignFold(uimm, 8))) >>

CJ_fields(byte_stream, info) ==
  LET raw_bits == raw_bits_of(byte_stream, 16)
      uimm == OrAll(<< BitAt(raw_bits, 2) * (2^5),
                      SliceDown(raw_bits, 6, 2) * (2^1),
                      SliceDown(raw_bits, 12, 6) * (2^6) >>)
  IN  << Item("uimm", IntV(uimm)),
         Item("imm", IntV(SignFold(uimm, 10))) >>

\* The method that self.gen_instr_assembly resolves to, by the object's class.
ClassFields(cls, byte_stream, info) ==
  CASE cls = "R" -> R_fields(byte_stream, info)
    [] cls = "I" -> I_fields(byte_stream, info)
    [] cls = "S" -> S_fields(byte_stream, info)
    [] cls = "B" -> B_fields(byte_stream, info)
    [] cls = "U" -> U_fields(byte_stream, info)
    [] cls = "J" -> J_fields(byte_stream, info)
    [] cls = "CR" -> CR_fields(byte_stream, info)
    [] cls = "CI" -> CI_fields(byte_stream, info)
    [] cls = "CSS" -> CSS_fields(byte_stream, info)
    [] cls = "CIW" -> CIW_fields(byte_stream, info)
    [] cls = "CL" -> CL_fields(byte_stream, info)
    [] cls = "CS" -> CS_fields(byte_stream, info)
    [] cls = "CB" -> CB_fields(byte_stream, info)
    [] cls = "CJ" -> CJ_fields(byte_stream, info)

----------------------------------------------------------------------------
(* Insn.expand_format_string.                                              *)

\* The characters of a field name.
KeyChars(k) ==
  CASE k = "rd" -> <<"r","d">>
    [] k = "rs1" -> <<"r","s","1">>
    [] k = "rs2" -> <<"r","s","2">>
    [] k = "uimm" -> <<"u","i","m","m">>
    [] k = "imm" -> <<"i","m","m">>
    [] k = "dest" -> <<"d","e","s","t">>

\* str(v)
StrOf(v) == IF v.t = "str" THEN v.s ELSE StrInt(v.n)

\* int(s, 16) on the text that hex() produces
IntOfHexStr(s) ==
  IF Head(s) = "-" THEN 0 - ParseHex(SubSeq(s, 4, Len(s)))
  ELSE ParseHex(SubSeq(s, 3, Len(s)))

\* try: addr = int(fields['imm'], 16)  except TypeError: addr = fields['imm']
ImmAsAddr(v) == IF v.t = "str" THEN IntOfHexStr(v.s) ELSE v.n

\* The hexadecimal digit values of a non-negative int, most significant
\* first, padded on the left to at least k digits.
RECURSIVE DigitVals(_, _)
DigitVals(n, k) ==
  IF n < 16 /\ k <= 1 THEN <<n>>
  ELSE DigitVals(n \div 16, k - 1) \o <<n % 16>>

RECURSIVE StripZeros(_)
StripZeros(ds) ==
  IF Len(ds) > 1 /\ Head(ds) = 0 THEN StripZeros(Tail(ds)) ELSE ds

\* The number of hexadecimal digits of 0xffffffffffffffff and of 0xffffffff.
AllOnes64Digits == 16
AllOnes32Digits == 8

\* (16^k - 1) + addr for -(16^k) < addr < 0, as hexadecimal digit values:
\* subtracting from a number whose digits are all f never borrows.
AllOnesPlus(k, addr) ==
  LET m == DigitVals(0 - addr, k)
  IN  StripZeros([i \in 1..Len(m) |-> 15 - m[i]])

\* gdb.disassembler.format_address(architecture, addr); addr is given by
\* its hexadecimal digit values.
format_address(arch, digits) ==
  <<"0","x">> \o [i \in 1..Len(digits) |-> HexChars[digits[i] + 1]]

\* Lines 200-214: the dict after the 'dest' item has been added.
WithDest(fields, info) ==
  IF HasKey(fields, "imm") /\ ~HasKey(fields, "dest")
  THEN LET addr == ImmAsAddr(Get(fields, "imm"))
           wrapped == IF addr < 0
                      THEN IF info.arch = "riscv:rv64"
                           THEN AllOnesPlus(AllOnes64Digits, addr)
                           ELSE AllOnesPlus(AllOnes32Digits, addr)
                      ELSE DigitVals(addr, 1)
       IN  Append(fields, Item("dest", StrV(format_address(info.arch, wrapped))))
  ELSE fields

\* Lines 215-219: for k in fields.keys(): res = res.replace('$' + k, str(v))
RECURSIVE ReplaceFields(_, _)
ReplaceFields(res, fields) ==
  IF fields = <<>> THEN res
  ELSE ReplaceFields(Replace(res, <<"$">> \o KeyChars(Head(fields).k),
                             StrOf(Head(fields).v)),
                     Tail(fields))

expand_format_string(self, fields, info) ==
  ReplaceFields(self.format_string, WithDest(fields, info))

gen_instr_assembly(self, byte_stream, info) ==
  expand_format_string(self, ClassFields(self.cls, byte_stream, info), info)

----------------------------------------------------------------------------
(* class CustomInstructionHandler.                                         *)

\* The keys of the gen_insn dictionary of create_insns and the class each
\* one constructs.
gen_insn_keys ==
  << <<"R">>, <<"I">>, <<"S">>, <<"B">>, <<"S","B">>, <<"U">>, <<"J">>,
     <<"U","J">>, <<"C","R">>, <<"C","I">>, <<"C","S","S">>, <<"C","I","W">>,
     <<"C","L">>, <<"C","S">>, <<"C","B">>, <<"C","J">> >>

gen_insn_class ==
  << "R", "I", "S", "B", "B", "U", "J", "J", "CR", "CI", "CSS", "CIW",
     "CL", "CS", "CB", "CJ" >>

Construct(cls, attrib) ==
  CASE cls = "R" -> R_Insn(attrib)
    [] cls = "I" -> I_Insn(attrib)
    [] cls = "S" -> S_Insn(attrib)
    [] cls = "B" -> B_Insn(attrib)
    [] cls = "U" -> U_Insn(attrib)
    [] cls = "J" -> J_Insn(attrib)
    [] cls = "CR" -> CR_Insn(attrib)
    [] cls = "CI" -> CI_Insn(attrib)
    [] cls = "CSS" -> CSS_Insn(attrib)
    [] cls = "CIW" -> CIW_Insn(attrib)
    [] cls = "CL" -> CL_Insn(attrib)
    [] cls = "CS" -> CS_Insn(attrib)
    [] cls = "CB" -> CB_Insn(attrib)
    [] cls = "CJ" -> CJ_Insn(attrib)

\* insn = gen_insn[elem.attrib['type']](elem): KeyError when the element has
\* no type, when the type is no key of gen_insn, or from the constructor.
TryBody(attrib) ==
  IF "type" \notin DOMAIN attrib THEN Raise("KeyError")
  ELSE IF \A i \in 1..Len(gen_insn_keys) : gen_insn_keys[i] # attrib["type"]
       THEN Raise("KeyError")
       ELSE Construct(gen_insn_class[CHOOSE i \in 1..Len(gen_insn_keys) :
                                       gen_insn_keys[i] = attrib["type"]],
                      attrib)

\* The for loop of create_insns over the elements still to visit.  The
\* except clause catches KeyError only, and its print reads
\* elem.attrib['type'] again.
\* A loop that an element of unknown type ends.
RECURSIVE create_insns_until_unknown(_, _)
create_insns_until_unknown(insns, masks) ==
  IF insns = <<>> THEN [exc |-> "none", insns |-> masks]
  ELSE LET r == TryBody(Head(insns).attrib)
       IN  IF r.exc = "none"
           THEN create_insns_until_unknown(Tail(insns), Append(masks, r.obj))
           ELSE [exc |-> "none", insns |-> masks]

RECURSIVE create_insns_loop(_, _)
create_insns_loop(insns, masks) ==
  IF insns = <<>> THEN [exc |-> "none", insns |-> masks]
  ELSE LET attrib == Head(insns).attrib
           r == TryBody(attrib)
       IN  IF r.exc = "none"
           THEN create_insns_loop(Tail(insns), Append(masks, r.obj))
           ELSE IF r.exc = "KeyError" /\ "type" \in DOMAIN attrib
                THEN create_insns_loop(Tail(insns), masks)
                ELSE [exc |-> r.exc, insns |-> <<>>]

\* root.findall('instruction'): the children with that tag, in order.
findall(root, tag) == SelectSeq(root, LAMBDA e : e.tag = tag)

create_insns(root) == create_insns_loop(findall(root, "instruction"), <<>>)

\* A comparison of the bits alone.
compare_bits_only(byte, insn, len) == insn.insn = BitAnd(byte, insn.mask)

compare_with_insn(byte, insn, len) ==
  IF len # insn.len THEN FALSE
  ELSE insn.insn = BitAnd(byte, insn.mask)

\* The index in self._insns of the object returned, 0 for None.
RECURSIVE compare_from(_, _, _, _)
compare_from(insns, i, byte, len) ==
  IF i > Len(insns) THEN 0
  ELSE IF compare_with_insn(byte, insns[i], len) THEN i
       ELSE compare_from(insns, i + 1, byte, len)

\* The last matching object instead of the first.
compare_last(insns, byte, len) ==
  LET m == {i \in 1..Len(insns) : compare_with_insn(byte, insns[i], len)}
  IN  IF m = {} THEN 0 ELSE CHOOSE i \in m : \A j \in m : j <= i

compare_with_insns(insns, byte, len) == compare_from(insns, 1, byte, len)

\* [hit, string]: hit is the index of the matching object, 0 when
\* disassemble returns None.
disassemble(insns, insn, len, info) ==
  LET insn_type == compare_with_insns(insns, insn, len)
  IN  IF insn_type # 0
      THEN [hit |-> insn_type,
            fields |-> WithDest(ClassFields(insns[insn_type].cls, insn, info), info),
            string |-> gen_instr_assembly(insns[insn_type], insn, info)]
      ELSE [hit |-> 0, fields |-> <<>>, string |-> <<>>]

----------------------------------------------------------------------------
(* The environment: XML documents, the local file system, the remote       *)
(* targets and the builtin disassembler.                                   *)

Attr(ty, opcode, str) == [type |-> ty, opcode |-> opcode, str |-> str]
Attr3(ty, opcode, f3, str) ==
  [type |-> ty, opcode |-> opcode, funct3 |-> f3, str |-> str]
Elem(attrib) == [tag |-> "instruction", attrib |-> attrib]

Tpl_R == <<"$","o","p","c","o","d","e"," ","f","a","k","e"," ",
           "$","r","d",",","$","r","s","1",",","$","r","s","2">>
Tpl_regs == <<"$","r","d",",","$","r","s","1",",","$","r","s","2">>
Tpl_imm == <<"$","r","d",",","$","r","s","1",",","$","r","s","2",",",
             "$","i","m","m",",","$","u","i","m","m">>
Tpl_dest == <<"$","r","d",",","$","r","s","1",",","$","r","s","2",",",
              "$","i","m","m",",","$","u","i","m","m",",","$","d","e","s","t">>
Tpl_unknown == <<"$","o","p","c","o","d","e"," ","$","r","d","x",",",
                 "$","i","m","m","2",",","$","r","d",",","$","i","m","m">>
Tpl_twice == <<"$","r","d",",","$","r","s","1",",","$","r","s","2",",",
               "$","r","d">>

\* The catalog used for decoding: one entry per encoding class, a duplicate
\* of the R entry and a U entry that overlaps it, two entries whose opcode
\* does not fit their class's length, and templates with unknown
\* placeholders.
DocMain ==
  << Elem([type |-> <<"R">>, opcode |-> <<"0","b">>, funct3 |-> <<"0">>,
           funct7 |-> <<"0","0">>, str |-> Tpl_R]),
     Elem([type |-> <<"R">>, opcode |-> <<"0","b">>, funct3 |-> <<"0">>,
           funct7 |-> <<"0","0">>, str |-> Tpl_regs]),
     Elem(Attr(<<"U">>, <<"0","b">>, Tpl_imm)),
     Elem(Attr3(<<"I">>, <<"2","b">>, <<"1">>, Tpl_dest)),
     Elem(Attr3(<<"S">>, <<"2","b">>, <<"2">>, Tpl_imm)),
     Elem(Attr3(<<"S","B">>, <<"5","b">>, <<"0">>, Tpl_dest)),
     Elem(Attr(<<"U","J">>, <<"7","b">>, Tpl_dest)),
     Elem([type |-> <<"C","R">>, opcode |-> <<"2">>, funct4 |-> <<"8">>,
           str |-> Tpl_twice]),
     Elem(Attr3(<<"C","I">>, <<"1">>, <<"0">>, Tpl_imm)),
     Elem(Attr3(<<"C","S","S">>, <<"2">>, <<"6">>, Tpl_imm)),
     Elem(Attr3(<<"C","I","W">>, <<"0">>, <<"0">>, Tpl_imm)),
     Elem(Attr3(<<"C","L">>, <<"0">>, <<"2">>, Tpl_imm)),
     Elem(Attr3(<<"C","S">>, <<"0">>, <<"6">>, Tpl_imm)),
     Elem(Attr3(<<"C","B">>, <<"1">>, <<"6">>, Tpl_imm)),
     Elem(Attr3(<<"C","J">>, <<"1">>, <<"5">>, Tpl_dest)),
     Elem(Attr(<<"U">>, <<"0","1">>, Tpl_imm)),
     Elem(Attr3(<<"C","I">>, <<"3">>, <<"0">>, Tpl_imm)),
     Elem(Attr3(<<"I">>, <<"2","b">>, <<"3">>, Tpl_unknown)) >>

\* A catalog whose attribute values do not fit their bit fields.
DocWide ==
  << Elem([type |-> <<"R">>, opcode |-> <<"8","b">>, funct3 |-> <<"0">>,
           funct7 |-> <<"0","0">>, str |-> Tpl_R]),
     Elem(Attr3(<<"I">>, <<"2","b">>, <<"9">>, Tpl_imm)),
     Elem(Attr3(<<"C","I">>, <<"5">>, <<"0">>, Tpl_imm)) >>

\* Two small catalogs for the session life cycle.
DocSmall ==
  << Elem([type |-> <<"R">>, opcode |-> <<"0","b">>, funct3 |-> <<"0">>,
           funct7 |-> <<"0","0">>, str |-> Tpl_R]) >>

DocRemote ==
  << Elem(Attr3(<<"C","I">>, <<"1">>, <<"0">>, Tpl_imm)),
     Elem([type |-> <<"R">>, opcode |-> <<"0","b">>, funct3 |-> <<"0">>,
           funct7 |-> <<"0","0">>, str |-> Tpl_regs]) >>

\* The nodes of the generated documents, by name: a well-formed R node and
\* a well-formed CI node, a node of a class that gen_insn does not know, and
\* nodes with a missing opcode, type, funct3 or str or with an opcode that
\* is not hexadecimal.
NodeNames == {"a", "b", "x", "o", "t", "f", "s", "h"}
Node(n) ==
  CASE n = "a" -> Elem([type |-> <<"R">>, opcode |-> <<"0","b">>,
                        funct3 |-> <<"0">>, funct7 |-> <<"0","0">>, str |-> Tpl_R])
    [] n = "b" -> Elem(Attr3(<<"C","I">>, <<"1">>, <<"0">>, Tpl_imm))
    [] n = "x" -> Elem(Attr(<<"X">>, <<"0","b">>, Tpl_regs))
    [] n = "o" -> Elem([type |-> <<"I">>, funct3 |-> <<"1">>, str |-> Tpl_imm])
    [] n = "t" -> Elem([opcode |-> <<"0","b">>, str |-> Tpl_regs])
    [] n = "f" -> Elem([type |-> <<"I">>, opcode |-> <<"2","b">>, str |-> Tpl_imm])
    [] n = "s" -> Elem([type |-> <<"U">>, opcode |-> <<"0","b">>])
    [] n = "h" -> Elem([type |-> <<"R">>, opcode |-> <<"z","z">>,
                        funct3 |-> <<"0">>, funct7 |-> <<"0","0">>, str |-> Tpl_R])

\* The generated documents: every sequence of at most MaxNodes nodes.  A
\* document is named by a sequence: the fixed ones by their name, a
\* generated one by "gen" and the names of its nodes.
MaxNodes == 3
NodeSeqs == UNION {[1..n -> NodeNames] : n \in 0..MaxNodes}
GenDocs == {<<"gen">> \o s : s \in NodeSeqs}

DocIds == {<<"main">>, <<"wide">>, <<"small">>, <<"remote">>} \cup GenDocs

Tree(d) ==
  CASE d = <<"main">> -> DocMain
    [] d = <<"wide">> -> DocWide
    [] d = <<"small">> -> DocSmall
    [] d = <<"remote">> -> DocRemote
    [] OTHER -> [i \in 1..(Len(d) - 1) |-> Node(d[i + 1])]

\* The length of a document's XML text, and the text: its characters are
\* kept abstract, character i of document d is <<d, i>>.
XmlLen(d) == IF d = <<"remote">> THEN 450 ELSE 40
XmlText(d) == [i \in 1..XmlLen(d) |-> <<d, i>>]

\* ElementTree.fromstring / ElementTree.parse on a text: the root element's
\* children, or an exception when the text is no well-formed document.
ParseXml(text) ==
  IF text # <<>> /\ text[1][1] \in DocIds /\ text = XmlText(text[1][1])
  THEN [ok |-> TRUE, root |-> Tree(text[1][1])]
  ELSE [ok |-> FALSE, root |-> <<>>]

Path_main == <<"m">>
Path_wide == <<"w">>
Path_small == <<"s">>
Path_junk == <<"j">>
Path_remote == <<"r","e","m","o","t","e",":">>
Path_remote_default ==
  <<"r","e","m","o","t","e",":","i","n","s","n",".","x","m","l">>

Path_missing == <<"n">>
Path_remote_missing == <<"r","e","m","o","t","e",":","e">>

\* The local files: Path_junk exists but holds no XML, the file g followed
\* by node names holds the generated document of these nodes, any other
\* path does not exist.
GenPaths == {<<"g">> \o s : s \in NodeSeqs}
LocalFiles == {Path_main, Path_wide, Path_small, Path_junk} \cup GenPaths
LocalText(p) ==
  CASE p = Path_main -> XmlText(<<"main">>)
    [] p = Path_wide -> XmlText(<<"wide">>)
    [] p = Path_small -> XmlText(<<"small">>)
    [] p = Path_junk -> SubSeq(XmlText(<<"small">>), 1, 7)
    [] OTHER -> XmlText(<<"gen">> \o Tail(p))

ConnIds == {"c1", "c2"}

\* conn.type
ConnType(c) ==
  CASE c = "c1" -> "remote" [] c = "c3" -> "extended-remote" [] OTHER -> "native"

\* The reply of the remote to qXfer:features:read:annex:offset,length: the
\* window of the annex behind 'm' when more follows and behind 'l' when it
\* is the last.  For an annex it does not have, the remote of c1 replies
\* with the error E01 and the remote of c3, which does not know the
\* packet, with the empty reply.
RemoteAnnexes == {<<"i","n","s","n",".","x","m","l">>}
ErrorReply == <<"E","0","1">>
send_remote_packet(conn, annex, offset, length) ==
  IF annex \notin RemoteAnnexes
  THEN IF conn = "c3" THEN <<>> ELSE ErrorReply
  ELSE LET text == XmlText(<<"remote">>)
       IN  IF offset + length < Len(text)
           THEN <<"m">> \o SubSeq(text, offset + 1, offset + length)
           ELSE <<"l">> \o SubSeq(text, offset + 1, Len(text))

\* gdb.disassembler.builtin_disassemble(info): the text of gdb's own
\* disassembler and the length of the instruction at info.address.
BuiltinText == <<"b","u","i","l","t","i","n">>
builtin_disassemble(mem) ==
  [string |-> BuiltinText, length |-> IF mem[1] % 4 = 3 THEN 4 ELSE 2]

----------------------------------------------------------------------------
(* RISCVDisassemblerFilename.fetch_xml and the session constructor.        *)

fetch_len == 200

\* A loop that takes its first reply for the last one.
fetch_loop_once(conn, filename, start_pos, xml_string) ==
  LET str == send_remote_packet(conn, filename, start_pos, fetch_len)
  IN  IF str = <<>>
      THEN [ok |-> FALSE, xml |-> xml_string, hang |-> FALSE,
            sent |-> <<start_pos>>]
      ELSE IF str = ErrorReply
           THEN [ok |-> FALSE, xml |-> xml_string, hang |-> TRUE,
                 sent |-> <<start_pos>>]
           ELSE [ok |-> TRUE, xml |-> xml_string \o Tail(str),
                 hang |-> FALSE, sent |-> <<start_pos>>]

\* The while loop of fetch_xml: [ok, xml, hang, sent]; ok is FALSE when
\* str[0] raises IndexError on an empty reply, and sent lists the offsets
\* of the packets in the order the loop sent them.  The loop ends on 'l'
\* only: on an error reply, which the remote repeats whatever the offset,
\* c is never 'l', the loop runs forever and hang is TRUE.
RECURSIVE fetch_loop(_, _, _, _)
fetch_loop(conn, filename, start_pos, xml_string) ==
  LET str == send_remote_packet(conn, filename, start_pos, fetch_len)
  IN  IF str = <<>>
      THEN [ok |-> FALSE, xml |-> xml_string, hang |-> FALSE,
            sent |-> <<start_pos>>]
      ELSE IF Head(str) = "l"
           THEN [ok |-> TRUE, xml |-> xml_string \o Tail(str),
                 hang |-> FALSE, sent |-> <<start_pos>>]
           ELSE IF str = ErrorReply
                THEN [ok |-> FALSE, xml |-> xml_string, hang |-> TRUE,
                      sent |-> <<start_pos>>]
                ELSE LET rest == fetch_loop(conn, filename,
                                            start_pos + fetch_len,
                                            xml_string \o Tail(str))
                     IN  [rest EXCEPT !.sent = <<start_pos>> \o @]

None == [ok |-> FALSE, root |-> <<>>, hang |-> FALSE]
Hang == [ok |-> FALSE, root |-> <<>>, hang |-> TRUE]

\* fetch_xml with self.value = value and gdb.selected_inferior().connection
\* = conn: [ok, root], ok FALSE for None, and Hang when it does not return.
fetch_xml(value, conn) ==
  IF StartsWith(value, Path_remote)
  THEN IF conn = "None" THEN None
       ELSE IF ConnType(conn) # "remote" /\ ConnType(conn) # "extended-remote"
            THEN None
            ELSE LET filename == SubSeq(value, 8, Len(value))
                     got == fetch_loop(conn, filename, 0, <<>>)
                 IN  IF filename = <<>> THEN None
                     ELSE IF got.hang THEN Hang
                     ELSE IF ~got.ok THEN None
                          ELSE IF ~ParseXml(got.xml).ok THEN None
                               ELSE ParseXml(got.xml)
  ELSE IF value # <<>>
       THEN IF value \notin LocalFiles THEN None
            ELSE IF ~ParseXml(LocalText(value)).ok THEN None
                 ELSE ParseXml(LocalText(value))
       ELSE None

\* CustomInstructionHandler.__init__: [exc, insns]; exc is "hang" when the
\* constructor does not return.
CustomInstructionHandler(value, conn) ==
  LET root == fetch_xml(value, conn)
  IN  IF root.ok THEN create_insns(root.root)
      ELSE IF root.hang THEN [exc |-> "hang", insns |-> <<>>]
      ELSE [exc |-> "none", insns |-> <<>>]

----------------------------------------------------------------------------
(* class RISCVDisassembler and the two parameters.                         *)

MaxEpoch == 2
MaxSessions == 3

EmptyCache == [c \in {} |-> <<>>]

\* What a handler leaves behind when it is no disassembly request.  For a
\* request: the connection, the bytes and the DisassembleInfo it was given,
\* the exception it raised ("hang" when it does not return), the length and
\* word it read, the index of the
\* matched entry, the field dictionary, the result string and length, the
\* number of calls of the builtin disassembler, the id and epoch of the
\* session used and whether the request built it.  For set_filename: the
\* selected connection and the value the user gave.  For register: the
\* two arguments and the value returned.  result says whether info holds a
\* result (info.string is not None).  For connection_removed:
\* the connection and the id of the session discarded (0 when none).
NoOut(op) ==
  [op |-> op, exc |-> "none", conn |-> "None", enabled |-> TRUE,
   mem |-> <<>>, info |-> [address |-> 0, arch |-> ""],
   len |-> 0, insn |-> {}, hit |-> 0, fields |-> <<>>,
   string |-> <<>>, length |-> 0, builtin |-> 0,
   sid |-> 0, sepoch |-> 0, built |-> FALSE, value |-> <<>>,
   disassembler |-> "None", architecture |-> "None", old |-> "None",
   result |-> FALSE]

\* gdb.architecture_names().
architecture_names == {"riscv:rv32", "riscv:rv64", "i386"}

\* The objects given to register_disassembler: instances of Disassembler,
\* None, and an object that is no Disassembler.
Disassemblers ==
  {"riscv_disassembler", "analyzing_disassembler",
   "syntax_highlighting_disassembler"}
NotADisassembler == "object"

\* The dictionary with the key architecture removed, and with it set.
DictDel(dict, key) == [k \in (DOMAIN dict) \ {key} |-> dict[k]]
DictSet(dict, key, value) ==
  [k \in (DOMAIN dict) \cup {key} |-> IF k = key THEN value ELSE dict[k]]

\* _disassembly_registry = {}
EmptyRegistry == [k \in {} |-> "None"]

\* A registration that forgets every other one.
register_alone(registry, disassembler, architecture) ==
  [exc |-> "none",
   old |-> IF architecture \in DOMAIN registry THEN registry[architecture]
           ELSE "None",
   registry |-> IF disassembler # "None"
                THEN DictSet(EmptyRegistry, architecture, disassembler)
                ELSE EmptyRegistry]

\* register_disassembler(disassembler, architecture) on the registry:
\* [exc, old, registry].  The key "None" is the key None.
register_disassembler(registry, disassembler, architecture) ==
  IF disassembler \notin Disassemblers /\ disassembler # "None"
  THEN [exc |-> "TypeError", old |-> "None", registry |-> registry]
  ELSE LET old == IF architecture \in DOMAIN registry
                  THEN registry[architecture] ELSE "None"
           removed == IF architecture \in DOMAIN registry
                      THEN DictDel(registry, architecture) ELSE registry
       IN  [exc |-> "none", old |-> old,
            registry |-> IF disassembler # "None"
                         THEN DictSet(removed, architecture, disassembler)
                         ELSE removed]

\* A lookup that prefers the disassembler of all architectures.
global_first(registry, name) ==
  IF "None" \in DOMAIN registry THEN registry["None"]
  ELSE IF name \in DOMAIN registry THEN registry[name]
  ELSE "None"

\* _lookup_disassembler(arch) with arch.name() = name: the disassembler,
\* "None" for None.
_lookup_disassembler(registry, name) ==
  IF name = "None" THEN "None"
  ELSE IF name \in DOMAIN registry THEN registry[name]
  ELSE IF "None" \in DOMAIN registry THEN registry["None"]
  ELSE "None"

\* The registry after custominsn.py was imported: riscv_disassembler for
\* every architecture whose name starts with "riscv".
RiscvRegistry ==
  [a \in {n \in architecture_names : n \in {"riscv:rv32", "riscv:rv64"}} |->
     "riscv_disassembler"]

Init ==
  /\ enabled = TRUE
  /\ path = <<>>
  /\ conns = {}
  /\ selected = "None"
  /\ cache = EmptyCache
  /\ epoch = 0
  /\ nextId = 0
  /\ out = NoOut("init")
  /\ _disassembly_registry = RiscvRegistry
  /\ _print_insn = "_perform_disassembly"

\* A handler that leaves the cache as it is.
keep_cached_disassembler(conn) == cache

\* A handler that empties the cache.
discard_all(conn) == EmptyCache

\* _discard_cached_disassembler(conn): the cache without conn's session.
_discard_cached_disassembler(conn) == [c \in (DOMAIN cache) \ {conn} |-> cache[c]]

\* The selected inferior gets a new target connection.
Connect(c) ==
  /\ c \in ConnIds \ conns
  /\ conns' = conns \cup {c}
  /\ selected' = c
  /\ out' = NoOut("connect")
  /\ UNCHANGED <<enabled, path, cache, epoch, nextId, reg_vars>>

\* The user selects another inferior.
Select(c) ==
  /\ c \in (conns \cup {"None"}) \ {selected}
  /\ selected' = c
  /\ out' = NoOut("select")
  /\ UNCHANGED <<enabled, path, conns, cache, epoch, nextId, reg_vars>>

\* gdb removes connection c and emits connection_removed: the callback
\* registered by RISCVDisassembler.__init__ runs.
ConnectionRemoved(c) ==
  /\ c \in conns
  /\ conns' = conns \ {c}
  /\ selected' = IF selected = c THEN "None" ELSE selected
  /\ cache' = _discard_cached_disassembler(c)
  /\ out' = [NoOut("connection_removed") EXCEPT
               !.conn = c,
               !.sid = IF c \in DOMAIN cache THEN cache[c].id ELSE 0]
  /\ UNCHANGED <<enabled, path, epoch, nextId, reg_vars>>

\* set custom-instruction-display v
SetDisplay(v) ==
  /\ v # enabled
  /\ enabled' = v
  /\ out' = NoOut("set_display")
  /\ UNCHANGED <<path, conns, selected, cache, epoch, nextId, reg_vars>>

\* A set handler that leaves the value as gdb stored it.
keep_value(value) == value

\* The value get_set_string leaves in self.value when gdb stored value.
get_set_string(value) ==
  IF value = Path_remote THEN Path_remote_default ELSE value

\* set custom-instruction-filename v: gdb stores v, then get_set_string runs.
\* epoch counts the calls that change the stored value.
SetFilename(v) ==
  LET stored == get_set_string(v)
  IN  /\ stored # path => epoch < MaxEpoch
      /\ cache' = _discard_cached_disassembler(selected)
      /\ path' = stored
      /\ epoch' = IF stored # path THEN epoch + 1 ELSE epoch
      /\ out' = [NoOut("set_filename") EXCEPT !.conn = selected, !.value = v]
      /\ UNCHANGED <<enabled, conns, selected, nextId, reg_vars>>

\* The big-endian value of the instruction bytes.
RECURSIVE bytes_to_insn_be(_, _, _)
bytes_to_insn_be(insn_bytes, insn, shift) ==
  IF insn_bytes = <<>> THEN insn
  ELSE bytes_to_insn_be(SubSeq(insn_bytes, 1, Len(insn_bytes) - 1),
                        BitOr(insn, Shl(ToBits(insn_bytes[Len(insn_bytes)]), shift)),
                        shift + 8)

\* An entry point that is set whatever the registry holds.
print_insn_always(registry) == "_perform_disassembly"

\* The value register_disassembler leaves in _print_insn.
print_insn_for(registry) ==
  IF DOMAIN registry # {} THEN "_perform_disassembly" ELSE "None"

\* gdb.disassembler.register_disassembler(d, arch), called by a script.
Register(d, arch) ==
  LET r == register_disassembler(_disassembly_registry, d, arch)
  IN  /\ _disassembly_registry' = r.registry
      /\ _print_insn' = IF r.exc # "none" THEN _print_insn
                        ELSE print_insn_for(r.registry)
      /\ out' = [NoOut("register") EXCEPT
                   !.exc = r.exc, !.disassembler = d, !.architecture = arch,
                   !.old = r.old]
      /\ UNCHANGED <<enabled, path, conns, selected, cache, epoch, nextId>>

\* The little-endian value of the instruction bytes:
\* insn = insn | (b << shift) for each byte.
RECURSIVE bytes_to_insn(_, _, _)
bytes_to_insn(insn_bytes, insn, shift) ==
  IF insn_bytes = <<>> THEN insn
  ELSE bytes_to_insn(Tail(insn_bytes),
                     BitOr(insn, Shl(ToBits(Head(insn_bytes)), shift)),
                     shift + 8)

\* A display that is on whatever the parameter says.
always_displayed == TRUE

\* bool(custom_instruction_display_p): the value of the parameter.
custom_instruction_display_p == enabled

\* info after gdb.disassembler.builtin_disassemble(info) stored its result.
with_builtin(info, mem) ==
  [info EXCEPT !.string = builtin_disassemble(mem).string,
               !.length = builtin_disassemble(mem).length,
               !.builtin = @ + 1,
               !.result = TRUE]

\* info after info.set_result(length, string).
set_result(info, length, string) ==
  [info EXCEPT !.string = string, !.length = length, !.result = TRUE]

\* A highlighting step that calls the builtin disassembler every time.
always_builtin(info, mem) == with_builtin(info, mem)

\* SyntaxHighlightingDisassembler.__call__(info): the builtin disassembler
\* runs when info.string is None; syntax_highlight restyles the text only.
SyntaxHighlightingDisassembler_call(info, mem) ==
  IF ~info.result THEN with_builtin(info, mem) ELSE info

\* A lookup that takes the new session whatever the cache holds.
always_new(conn, disassembler) == disassembler

\* get_disassembler with conn the selected connection: the cached session,
\* or disassembler, the session just constructed, when there is none.
get_disassembler(conn, disassembler) ==
  IF conn \notin DOMAIN cache THEN disassembler ELSE cache[conn]

\* riscv_disassembler(info) with the memory at info.address holding mem.
Call(mem, address, arch) ==
  LET info == [address |-> address, arch |-> arch]
      base == [NoOut("call") EXCEPT !.conn = selected, !.enabled = enabled,
                                    !.mem = mem, !.info = info]
  IN
  IF ~custom_instruction_display_p
  THEN /\ out' = SyntaxHighlightingDisassembler_call(base, mem)
       /\ UNCHANGED <<enabled, path, conns, selected, cache, epoch, nextId, reg_vars>>
  ELSE
  LET conn == selected
      miss == conn \notin DOMAIN cache
      new == CustomInstructionHandler(path, conn)
  IN
  /\ miss => nextId < MaxSessions
  /\ IF miss /\ new.exc # "none"
     THEN \* the constructor raises or does not return: nothing is cached,
          \* no result is set
          /\ out' = [base EXCEPT !.exc = new.exc]
          /\ UNCHANGED <<enabled, path, conns, selected, cache, epoch, nextId, reg_vars>>
     ELSE
     LET session == get_disassembler(conn, [id |-> nextId + 1, epoch |-> epoch,
                                            insns |-> new.insns])
         first_byte == mem[1]
         insn_bytes == IF first_byte % 4 = 3 THEN SubSeq(mem, 1, 4)
                       ELSE SubSeq(mem, 1, 2)
         insn == bytes_to_insn(insn_bytes, {}, 0)
         d == disassemble(session.insns, insn, Len(insn_bytes), info)
         seen == [base EXCEPT !.len = Len(insn_bytes), !.insn = insn,
                              !.hit = d.hit, !.fields = d.fields,
                              !.sid = session.id, !.sepoch = session.epoch,
                              !.built = miss]
     IN
     /\ cache' = [c \in (DOMAIN cache) \cup {conn} |->
                    IF c = conn THEN session ELSE cache[c]]
     /\ nextId' = IF miss THEN nextId + 1 ELSE nextId
     /\ out' = SyntaxHighlightingDisassembler_call(
                  IF d.hit # 0
                  THEN set_result(seen, Len(insn_bytes), d.string)
                  ELSE with_builtin(seen, mem),
                  mem)
     /\ UNCHANGED <<enabled, path, conns, selected, epoch, reg_vars>>

----------------------------------------------------------------------------
(* The inputs of the disassembly requests.                                 *)

\* The bit layout of the encoding classes as the design table gives it:
\* P(f, hi, lo, sh) says that word bits [hi:lo] hold bits sh.. of field f.
P(f, hi, lo, sh) == [f |-> f, hi |-> hi, lo |-> lo, sh |-> sh]

TableLayout(cls) ==
  CASE cls = "R" -> <<P("rd", 11, 7, 0), P("rs1", 19, 15, 0), P("rs2", 24, 20, 0)>>
    [] cls = "I" -> <<P("rd", 11, 7, 0), P("rs1", 19, 15, 0), P("imm", 31, 20, 0)>>
    [] cls = "S" -> <<P("rs1", 19, 15, 0), P("rs2", 24, 20, 0),
                      P("imm", 11, 7, 0), P("imm", 31, 25, 5)>>
    [] cls = "B" -> <<P("rs1", 19, 15, 0), P("rs2", 24, 20, 0),
                      P("imm", 11, 8, 1), P("imm", 30, 25, 5),
                      P("imm", 7, 7, 11), P("imm", 31, 31, 12)>>
    [] cls = "U" -> <<P("rd", 11, 7, 0), P("imm", 31, 12, 0)>>
    [] cls = "J" -> <<P("rd", 11, 7, 0), P("imm", 19, 12, 12),
                      P("imm", 20, 20, 11), P("imm", 30, 21, 1),
                      P("imm", 31, 31, 20)>>
    [] cls = "CR" -> <<P("rd", 11, 7, 0), P("rs1", 11, 7, 0), P("rs2", 6, 2, 0)>>
    [] cls = "CI" -> <<P("rd", 11, 7, 0), P("rs1", 11, 7, 0),
                       P("imm", 6, 2, 0), P("imm", 12, 12, 5)>>
    [] cls = "CSS" -> <<P("rd", 11, 7, 0), P("rs1", 11, 7, 0), P("rs2", 11, 7, 0),
                        P("imm", 12, 9, 2), P("imm", 8, 7, 6)>>
    [] cls = "CIW" -> <<P("rd", 4, 2, 0), P("imm", 5, 5, 3), P("imm", 6, 6, 2),
                        P("imm", 12, 11, 4), P("imm", 10, 7, 6)>>
    [] cls = "CL" -> <<P("rd", 4, 2, 0), P("rs1", 9, 7, 0), P("imm", 5, 5, 2),
                       P("imm", 6, 6, 6), P("imm", 12, 10, 3)>>
    [] cls = "CS" -> <<P("rd", 4, 2, 0), P("rs1", 4, 2, 0), P("rs2", 9, 7, 0),
                       P("imm", 6, 5, 0), P("imm", 12, 9, 2)>>
    [] cls = "CB" -> <<P("rs1", 9, 7, 0), P("imm", 2, 2, 5), P("imm", 6, 3, 1),
                       P("imm", 12, 10, 6)>>
    [] cls = "CJ" -> <<P("imm", 2, 2, 5), P("imm", 6, 3, 1), P("imm", 12, 7, 6)>>

\* The sign-extension width of the table; 0 for the classes without an
\* immediate, and U's 20 bits are unsigned.
TableWidth(cls) ==
  CASE cls = "I" -> 12 [] cls = "S" -> 12 [] cls = "B" -> 13 [] cls = "U" -> 20
    [] cls = "J" -> 21 [] cls = "CI" -> 6 [] cls = "CSS" -> 8 [] cls = "CIW" -> 10
    [] cls = "CL" -> 7 [] cls = "CS" -> 5 [] cls = "CB" -> 9 [] cls = "CJ" -> 11
    [] OTHER -> 0

Signed(cls) == TableWidth(cls) > 0 /\ cls # "U"

\* The fields a class has, and the bits of its immediate that the layout
\* stores.
HasField(cls, f) ==
  \E i \in 1..Len(TableLayout(cls)) : TableLayout(cls)[i].f = f
ImmBits(cls) ==
  UNION {LET p == TableLayout(cls)[i]
         IN  IF p.f = "imm" THEN p.sh..(p.sh + (p.hi - p.lo)) ELSE {}
         : i \in 1..Len(TableLayout(cls))}

\* The raw field of a signed immediate of width w.
RawOf(cls, imm) == IF imm < 0 THEN imm + 2^TableWidth(cls) ELSE imm

\* The operand bits of the word that holds the field values v = [rd, rs1,
\* rs2, imm] in the layout of cls.
TableEncode(cls, v) ==
  UNION {LET p == TableLayout(cls)[i]
             x == IF p.f = "imm" THEN RawOf(cls, v.imm) ELSE v[p.f]
         IN  {p.lo + (b - p.sh) : b \in ToBits(x) \cap (p.sh..(p.sh + (p.hi - p.lo)))}
         : i \in 1..Len(TableLayout(cls))}

\* Register choices: all zero, the registers 3, 4, 5 and the highest index.
RegWidth(cls) == IF cls \in {"CIW", "CL", "CS", "CB"} THEN 3 ELSE 5
RegChoices(cls) ==
  {[rd |-> 0, rs1 |-> 0, rs2 |-> 0], [rd |-> 3, rs1 |-> 4, rs2 |-> 5],
   [rd |-> 2^RegWidth(cls) - 1, rs1 |-> 2^RegWidth(cls) - 1,
    rs2 |-> 2^RegWidth(cls) - 1]}

\* Immediate choices: zero, every stored single bit with either sign, the
\* least and the greatest value of the width.
ImmChoices(cls) ==
  IF TableWidth(cls) = 0 THEN {0}
  ELSE LET w == TableWidth(cls)
           top == IF Signed(cls) THEN w - 1 ELSE w
           unit == 2^(CHOOSE b \in ImmBits(cls) : \A c \in ImmBits(cls) : b <= c)
           one == {2^b : b \in {c \in ImmBits(cls) : c < top}}
       IN  {0, 2^top - unit} \cup one
           \cup (IF Signed(cls) THEN {0 - x : x \in one} \cup {0 - 2^top} ELSE {})

\* The value of register field f under the choice r: fields that the
\* layout puts on the same word bits share the value of the first of them.
RegValue(cls, f, r) ==
  IF ~HasField(cls, f) THEN 0
  ELSE LET L == TableLayout(cls)
           at == CHOOSE i \in 1..Len(L) : L[i].f = f
           first == CHOOSE i \in 1..Len(L) :
                      /\ L[i].lo = L[at].lo /\ L[i].f # "imm"
                      /\ \A j \in 1..(i - 1) : L[j].lo # L[at].lo
       IN  r[L[first].f]

Values(cls) ==
  {[rd |-> RegValue(cls, "rd", r), rs1 |-> RegValue(cls, "rs1", r),
    rs2 |-> RegValue(cls, "rs2", r), imm |-> i] :
     r \in RegChoices(cls), i \in ImmChoices(cls)}

\* The catalog that the decoding requests run against.
MainCatalog == CustomInstructionHandler(Path_main, "None").insns

Entries == {MainCatalog[i] : i \in 1..Len(MainCatalog)}

\* The words of the requests: for every catalog entry its fixed bits with
\* the encoded field values, with every single other bit, and with all
\* other bits.
WordBits(e) == 0..(8 * e.len - 1)
WordsOf(e) ==
  {e.insn \cup TableEncode(e.cls, v) : v \in Values(e.cls)}
  \cup {e.insn \cup {b} : b \in WordBits(e) \ e.mask}
  \cup {e.insn \cup (WordBits(e) \ e.mask)}

\* Byte k of a word, and the memory that holds a word: four bytes, the
\* last two arbitrary behind a two-byte instruction.
ByteOf(w, k) == FromBits({b - 8 * k : b \in w \cap ((8 * k)..(8 * k + 7))})
Mem4(w) == <<ByteOf(w, 0), ByteOf(w, 1), ByteOf(w, 2), ByteOf(w, 3)>>
Mem2(w, t) == <<ByteOf(w, 0), ByteOf(w, 1), t, t>>
TailChoices == {0, 255}

MemDecode ==
  UNION {IF e.len = 4 THEN {Mem4(w) : w \in WordsOf(e)}
         ELSE {Mem2(w, t) : w \in WordsOf(e), t \in TailChoices}
         : e \in Entries}

\* The requests of the life cycle: a word of the R entry, a word of the CI
\* entry and a word that no entry matches.
MemSmall ==
  {Mem4(ToBits(11) \cup TableEncode("R", [rd |-> 3, rs1 |-> 4, rs2 |-> 5, imm |-> 0])),
   Mem2(ToBits(1) \cup TableEncode("CI", [rd |-> 3, rs1 |-> 3, rs2 |-> 0, imm |-> 0 - 1]), 255),
   Mem4(0..31)}

AddrChoices == {0, 4096}
ArchChoices == {"riscv:rv32", "riscv:rv64"}
PathChoices == {<<>>, Path_small, Path_junk, Path_remote}

----------------------------------------------------------------------------
(* The specifications.                                                     *)

Request == \E mem \in MemSmall : Call(mem, 4096, "riscv:rv32")

Next ==
  \/ \E c \in ConnIds : Connect(c)
  \/ \E c \in ConnIds \cup {"None"} : Select(c)
  \/ \E c \in ConnIds : ConnectionRemoved(c)
  \/ \E v \in BOOLEAN : SetDisplay(v)
  \/ \E v \in PathChoices : SetFilename(v)
  \/ Request

\* The life cycle of the sessions.
Spec == Init /\ [][Next]_vars

\* Decoding: the state after 'set custom-instruction-filename' named a
\* catalog and a first request, of a word that no entry matches, built the
\* session; then one request against that session.
InitDecode ==
  /\ enabled = TRUE
  /\ path \in {Path_main, Path_wide}
  /\ conns = {}
  /\ selected = "None"
  /\ cache = [c \in {"None"} |->
                [id |-> 1, epoch |-> 1,
                 insns |-> CustomInstructionHandler(path, "None").insns]]
  /\ epoch = 1
  /\ nextId = 1
  /\ out = [NoOut("call") EXCEPT
              !.mem = Mem4(0..31),
              !.info = [address |-> 4096, arch |-> "riscv:rv32"],
              !.len = 4, !.insn = 0..31, !.sid = 1, !.sepoch = 1,
              !.built = TRUE, !.string = BuiltinText, !.length = 4,
              !.builtin = 1, !.result = TRUE]
  /\ _disassembly_registry = RiscvRegistry
  /\ _print_insn = "_perform_disassembly"

DecodeRequest ==
  /\ out.built
  /\ \E mem \in MemDecode, a \in AddrChoices, arch \in ArchChoices :
       Call(mem, a, arch)

NextDecode == DecodeRequest

SpecDecode == InitDecode /\ [][NextDecode]_vars

\* Loading: the state after the selected inferior got its connection (or
\* none) and 'set custom-instruction-filename' stored a value, with no
\* session built yet; then the first request, which builds the session,
\* and one request against that session.
LoadConns == ConnIds \cup {"c3"}
LoadPaths ==
  GenPaths \cup {<<>>, Path_missing, Path_junk, Path_remote_default,
                 Path_remote_missing}

InitLoad ==
  /\ enabled = TRUE
  /\ path \in LoadPaths
  /\ selected \in LoadConns \cup {"None"}
  /\ conns = {selected} \ {"None"}
  /\ cache = EmptyCache
  /\ epoch = IF path = <<>> THEN 0 ELSE 1
  /\ nextId = 0
  /\ out = [NoOut("set_filename") EXCEPT !.conn = selected, !.value = path]
  /\ _disassembly_registry = RiscvRegistry
  /\ _print_insn = "_perform_disassembly"

LoadRequest ==
  /\ out.op = "set_filename" \/ out.built
  /\ \E mem \in MemSmall : Call(mem, 4096, "riscv:rv32")

NextLoad == LoadRequest

SpecLoad == InitLoad /\ [][NextLoad]_vars

\* The registry: the state after gdb imported gdb.disassembler, which
\* registers its syntax highlighting disassembler for all architectures
\* when pygments can be loaded, and custominsn.py; then the calls of
\* register_disassembler that scripts make.
InitRegistry ==
  /\ enabled = TRUE
  /\ path = <<>>
  /\ conns = {}
  /\ selected = "None"
  /\ cache = EmptyCache
  /\ epoch = 0
  /\ nextId = 0
  /\ out = NoOut("init")
  /\ _disassembly_registry \in
       {RiscvRegistry,
        DictSet(RiscvRegistry, "None", "syntax_highlighting_disassembler")}
  /\ _print_insn = "_perform_disassembly"

\* gdb calls _print_insn for an instruction of architecture name when it
\* is callable: _perform_disassembly looks the disassembler up and calls
\* it.  riscv_disassembler is the RISCVDisassembler object; the other
\* disassemblers leave the state of this module alone.
Dispatch(mem, name) ==
  /\ _print_insn = "_perform_disassembly"
  /\ LET disassembler == _lookup_disassembler(_disassembly_registry, name)
     IN  IF disassembler = "riscv_disassembler"
         THEN Call(mem, 4096, name)
         ELSE /\ out' = [NoOut("dispatch") EXCEPT
                          !.mem = mem, !.architecture = name,
                          !.disassembler = disassembler]
              /\ UNCHANGED <<enabled, path, conns, selected, cache, epoch,
                             nextId, reg_vars>>

RegisterChoices == Disassemblers \cup {"None", NotADisassembler}
KeyChoices == architecture_names \cup {"None"}

NextRegistry ==
  \/ \E d \in RegisterChoices, arch \in KeyChoices : Register(d, arch)
  \/ \E mem \in MemSmall, name \in architecture_names : Dispatch(mem, name)

SpecRegistry == InitRegistry /\ [][NextRegistry]_vars

----------------------------------------------------------------------------
(* Properties.                                                             *)

\* The session that served the last request, and its entries.
Served == out.op = "call" /\ out.enabled /\ out.exc = "none"
Catalog == cache[out.conn].insns

\* (word & e.mask) == e.insn, bit by bit.
SamePattern(word, e) ==
  \A b \in word \cup e.mask \cup e.insn :
     (b \in e.insn) <=> (b \in word /\ b \in e.mask)

\* C1: compare_with_insn(word, entry, len) is true if and only if the
\* entry's length equals len and (word & entry.mask) == entry.insn; an entry
\* of one length never matches a request of the other length, whatever the
\* bits are.
C1_CompareIff ==
  Served =>
    \A i \in 1..Len(Catalog) :
       /\ (compare_with_insn(out.insn, Catalog[i], out.len)
            <=> (Catalog[i].len = out.len /\ SamePattern(out.insn, Catalog[i])))
       /\ \A n \in {2, 4} :
            (Catalog[i].len # n) => ~compare_with_insn(out.insn, Catalog[i], n)

\* A two-byte request whose bits equal the pattern of a four-byte entry,
\* which does not match it.
C1_Witness ==
  /\ Served /\ out.len = 2
  /\ \E i \in 1..Len(Catalog) :
       /\ Catalog[i].len = 4 /\ SamePattern(out.insn, Catalog[i])
       /\ ~compare_with_insn(out.insn, Catalog[i], out.len)
       /\ out.hit # i

\* C2: compare_with_insns returns the matching entry of the lowest catalog
\* index and None exactly when no entry matches; the entry returned is thus
\* a function of the catalog, the word and the length, the same on every
\* repetition of a request.
Matching == {i \in 1..Len(Catalog) :
               Catalog[i].len = out.len /\ SamePattern(out.insn, Catalog[i])}
C2_FirstMatch ==
  Served =>
    /\ (out.hit = 0) <=> (Matching = {})
    /\ (out.hit # 0) => (out.hit \in Matching /\ \A j \in Matching : out.hit <= j)

\* A request that three entries match, answered by the first.
C2_Witness ==
  /\ Served /\ Cardinality(Matching) >= 3
  /\ out.hit \in Matching /\ \E j \in Matching : j > out.hit

\* C3 as claimed: once custom-instruction-filename has changed, every
\* request is served by a session built after the change.
C3_Original == (Served /\ out.conn \in ConnIds) => out.sepoch = epoch

\* C4: a session enters the cache only in a request of its connection, as
\* a session that never existed before; a request of a connection that has
\* a session uses that session and leaves the cache alone; after
\* connection_removed the cache holds no session for the connection.
C4_Lifecycle ==
  [][
      /\ \A c \in ConnIds \cup {"None"} :
          (c \in DOMAIN cache' /\ (c \notin DOMAIN cache \/ cache'[c] # cache[c]))
            => (/\ out'.op = "call" /\ out'.conn = c /\ out'.built
                /\ c \notin DOMAIN cache
                /\ cache'[c].id > nextId /\ nextId' = cache'[c].id
                /\ out'.sid = cache'[c].id)
      /\ (out'.op = "call" /\ out'.enabled /\ out'.exc = "none"
            /\ out'.conn \in DOMAIN cache)
           => (cache' = cache /\ ~out'.built /\ out'.sid = cache[out'.conn].id)
      /\ (out'.op = "connection_removed" => out'.conn \notin DOMAIN cache')
    ]_vars

\* connection_removed has discarded a session, and the sessions built so
\* far number at least two.
C4_Witness ==
  /\ out.op = "connection_removed" /\ out.sid > 0
  /\ out.conn \notin DOMAIN cache /\ nextId >= 2

\* C5 as claimed: every entry the loader constructs has no fixed bit
\* outside its mask, insn & ~mask == 0; stated of the entries of a catalog
\* that a request is decoded against.
C5_Original ==
  (Served /\ ~out.built) =>
     \A i \in 1..Len(Catalog) : Catalog[i].insn \ Catalog[i].mask = {}

\* The entry that matched the last request.
Hit == Catalog[out.hit]
Decoded == Served /\ out.hit # 0

\* The raw immediate that the table's layout stores in a word, its signed
\* reading at the table's width, and a field's number: B and J keep their
\* immediates as the text of hex().
TableRaw(cls, word) ==
  FromBits(UNION {LET p == TableLayout(cls)[i]
                  IN  IF p.f = "imm"
                      THEN {p.sh + (b - p.lo) : b \in word \cap (p.lo..p.hi)}
                      ELSE {}
                  : i \in 1..Len(TableLayout(cls))})
TableSigned(cls, u) ==
  IF Signed(cls) /\ u >= 2^(TableWidth(cls) - 1) THEN u - 2^TableWidth(cls) ELSE u
FieldNum(x) == IF x.t = "int" THEN x.n ELSE IntOfHexStr(x.s)

\* The offset a decoded immediate stands for: B and J add the address of
\* the instruction to it.
OffsetOf(k) ==
  IF Hit.cls \in {"B", "J"} THEN FieldNum(Get(out.fields, k)) - out.info.address
  ELSE FieldNum(Get(out.fields, k))

\* The name of register x in a field of the layout: three-bit fields name
\* the compressed registers.
RegName(p, x) ==
  IF p.hi - p.lo = 2 THEN cx_reg_names[x + 1] ELSE x_reg_names[x + 1]

\* Decoding the word that holds the values v in the table's layout returns
\* the values v.
RoundTrip(v) ==
  LET L == TableLayout(Hit.cls)
  IN  \A i \in 1..Len(L) :
         /\ HasKey(out.fields, L[i].f)
         /\ IF L[i].f = "imm" THEN OffsetOf("imm") = v.imm
            ELSE Get(out.fields, L[i].f) = StrV(RegName(L[i], v[L[i].f]))

\* The word holds the values v: every piece of the layout reads back the
\* bits of its field, also where the table puts two fields on the same
\* word bits.
Holds(word, cls, v) ==
  /\ word = Hit.insn \cup TableEncode(cls, v)
  /\ \A i \in 1..Len(TableLayout(cls)) :
        LET p == TableLayout(cls)[i]
            x == IF p.f = "imm" THEN RawOf(cls, v.imm) ELSE v[p.f]
        IN  {p.sh + (b - p.lo) : b \in word \cap (p.lo..p.hi)}
              = ToBits(x) \cap (p.sh..(p.sh + (p.hi - p.lo)))

\* C6 as claimed: for every class, a word that holds in-range register
\* indices and an in-range immediate in the layout of the table decodes to
\* the same register indices and the same immediate.
C6_Original ==
  Decoded =>
    \A v \in Values(Hit.cls) : Holds(out.insn, Hit.cls, v) => RoundTrip(v)

\* C7 as claimed: for every class with a sign-extended immediate of table
\* width w, imm is uimm when bit w - 1 of uimm is clear and uimm - 2^w when
\* it is set.
C7_Original ==
  (Decoded /\ Signed(Hit.cls)) =>
     LET w == TableWidth(Hit.cls)
         u == OffsetOf("uimm")
     IN  OffsetOf("imm") = IF (u \div 2^(w - 1)) % 2 = 0 THEN u ELSE u - 2^w

\* The hexadecimal digit values of n modulo 16^k.
TargetDigits(k, n) ==
  IF n >= 0 THEN DigitVals(n, 1)
  ELSE LET m == DigitVals((0 - n) - 1, k)
       IN  StripZeros([i \in 1..Len(m) |-> 15 - m[i]])

\* C8 as claimed: for a matched B or J entry at address A the value of
\* dest, and the text put in the place of $dest, is A plus the
\* sign-extended immediate of the word in lowercase hexadecimal behind 0x.
C8_Original ==
  (Decoded /\ Hit.cls \in {"B", "J"}) =>
     LET target == out.info.address
                     + TableSigned(Hit.cls, TableRaw(Hit.cls, out.insn))
         k == IF out.info.arch = "riscv:rv64" THEN 16 ELSE 8
         text == <<"0","x">> \o [i \in 1..Len(TargetDigits(k, target)) |->
                                   HexChars[TargetDigits(k, target)[i] + 1]]
     IN  /\ Get(out.fields, "dest") = StrV(text)
         /\ Len(out.string) >= Len(text)
         /\ SubSeq(out.string, Len(out.string) - Len(text) + 1, Len(out.string))
              = text


\* The signed reading of the low w bits of u.
LowSigned(u, w) ==
  IF ((u % 2^w) \div 2^(w - 1)) = 0 THEN u % 2^w ELSE (u % 2^w) - 2^w

\* uimm and imm are ints, imm the signed reading of uimm at the table's
\* width (U: uimm itself).
RawAndSigned ==
  LET u == Get(out.fields, "uimm")
      s == Get(out.fields, "imm")
  IN  /\ u.t = "int" /\ s.t = "int" /\ u.n >= 0
      /\ s.n = IF Signed(Hit.cls) THEN LowSigned(u.n, TableWidth(Hit.cls)) ELSE u.n

IdChars ==
  {"a","b","c","d","e","f","g","h","i","j","k","l","m","n","o","p","q","r",
   "s","t","u","v","w","x","y","z","0","1","2","3","4","5","6","7","8","9","_"}
RECURSIVE IdentLen(_)
IdentLen(s) ==
  IF s # <<>> /\ Head(s) \in IdChars THEN 1 + IdentLen(Tail(s)) ELSE 0

\* The template with every $identifier token whose identifier is a key of
\* the fields replaced by the field's value, and every other token kept.
RECURSIVE TokenRender(_, _)
TokenRender(s, fields) ==
  IF s = <<>> THEN <<>>
  ELSE IF Head(s) = "$"
       THEN LET n == IdentLen(Tail(s))
                id == SubSeq(s, 2, n + 1)
                rest == SubSeq(s, n + 2, Len(s))
                known == {i \in 1..Len(fields) : KeyChars(fields[i].k) = id}
            IN  (IF known # {}
                 THEN StrOf(fields[CHOOSE i \in known : TRUE].v)
                 ELSE <<"$">> \o id)
                \o TokenRender(rest, fields)
       ELSE <<Head(s)>> \o TokenRender(Tail(s), fields)

\* C10 as claimed: a $identifier token whose identifier is no key of the
\* field map is in the rendered text as it is in the template, $opcode as
\* well as $rdx and $imm2.
C10_Original ==
  Decoded => out.string = TokenRender(Hit.format_string, out.fields)


\* The template with every occurrence of $ followed by a key of the fields
\* replaced by the field's value, in one pass from the left.
RECURSIVE KeyRender(_, _)
KeyRender(s, fields) ==
  IF s = <<>> THEN <<>>
  ELSE LET at == {i \in 1..Len(fields) :
                    StartsWith(s, <<"$">> \o KeyChars(fields[i].k))}
       IN  IF at # {}
           THEN LET i == CHOOSE j \in at : TRUE
                IN  StrOf(fields[i].v)
                      \o KeyRender(SubSeq(s, Len(KeyChars(fields[i].k)) + 2, Len(s)),
                                   fields)
           ELSE <<Head(s)>> \o KeyRender(Tail(s), fields)

\* The index that a register piece of the layout holds in a word.
RegIndex(p, word) == FromBits({b - p.lo : b \in word \cap (p.lo..p.hi)})

\* C11: the rendered text is the template with every occurrence of each
\* placeholder of the field map replaced by the field's value; a register
\* field's value is the name at the register's index, from the x-table for
\* five-bit fields and the compressed table for three-bit fields; the R
\* entry "$opcode fake $rd,$rs1,$rs2" renders rd=3, rs1=4, rs2=5 as
\* "$opcode fake gp,tp,t0".
C11_Rendering ==
  Decoded =>
    /\ out.string = KeyRender(Hit.format_string, out.fields)
    /\ \A i \in 1..Len(TableLayout(Hit.cls)) :
         LET p == TableLayout(Hit.cls)[i]
         IN  p.f # "imm" =>
               /\ HasKey(out.fields, p.f)
               /\ Get(out.fields, p.f) = StrV(RegName(p, RegIndex(p, out.insn)))
    /\ (/\ Hit.format_string = Tpl_R
        /\ out.insn = Hit.insn
                        \cup TableEncode("R", [rd |-> 3, rs1 |-> 4, rs2 |-> 5, imm |-> 0]))
         => out.string = <<"$","o","p","c","o","d","e"," ","f","a","k","e"," ",
                           "g","p",",","t","p",",","t","0">>

\* The CR entry, whose template has $rd twice, matched a word with register
\* 3 in rd and 5 in rs2.
C11_Witness ==
  /\ Decoded /\ Hit.format_string = Tpl_twice
  /\ out.string = <<"g","p",",","g","p",",","t","0",",","g","p">>

\* The generated document behind path and its nodes.
LoadedNodes == Tail(path)
FromNodes(S) == path \in GenPaths /\ \A i \in 1..Len(LoadedNodes) : LoadedNodes[i] \in S
Loaded == out.op = "call" /\ out.enabled /\ out.built
EntryOf(n) == Construct(IF n = "a" THEN "R" ELSE "CI", Node(n).attrib).obj
KnownNodes == SelectSeq(LoadedNodes, LAMBDA n : n \in {"a", "b"})

\* C12: a node whose type names no encoding class is skipped and the load
\* goes on: for a document of well-formed nodes and nodes of an unknown
\* class, the first request builds the session without raising, and its
\* catalog holds the entries of the well-formed nodes, one per node, in
\* document order.
C12_UnknownSkipped ==
  (out.op = "call" /\ FromNodes({"a", "b", "x"})) =>
    /\ out.exc = "none"
    /\ out.conn \in DOMAIN cache
    /\ Catalog = [i \in 1..Len(KnownNodes) |-> EntryOf(KnownNodes[i])]

\* An unknown node between two well-formed ones; the request matches the
\* entry of the node behind it.
C12_Witness ==
  /\ Loaded
  /\ path = <<"g", "a", "x", "b">>
  /\ Len(Catalog) = 2
  /\ out.hit = 2

\* C13: a node with a malformed attribute (opcode, str, type, funct3,
\* funct4 or funct7 missing, or a numeric attribute that is not
\* hexadecimal) rejects only that node: the first request over any
\* generated document builds the session without raising, and the catalog
\* holds the entries of the well-formed nodes in document order.
C13_Original ==
  (out.op = "call" /\ path \in GenPaths) =>
    /\ out.exc = "none"
    /\ out.conn \in DOMAIN cache
    /\ Catalog = [i \in 1..Len(KnownNodes) |-> EntryOf(KnownNodes[i])]

\* C14: when the document cannot be obtained or parsed (empty path,
\* unreadable or unparsable local file, no connection, a connection that is
\* not remote, a failed or malformed remote reply) the session constructor
\* does not raise and yields an empty catalog: the first request returns
\* and leaves a session with an empty catalog in the cache.
C14_Original ==
  (out.op = "call" /\ out.enabled /\ ~fetch_xml(path, out.conn).ok) =>
    /\ out.exc = "none"
    /\ out.conn \in DOMAIN cache
    /\ Catalog = <<>>

\* C15: with an empty catalog, which is what the filename "" gives, disassemble
\* returns None whatever the word and the length: the request is answered
\* by the builtin disassembler, with its text and its length.
C15_Original ==
  (Served /\ (path = <<>> \/ Catalog = <<>>)) =>
    /\ Catalog = <<>>
    /\ out.hit = 0
    /\ out.builtin = 1
    /\ out.string = builtin_disassemble(out.mem).string
    /\ out.length = builtin_disassemble(out.mem).length

\* C16: a request reads 4 bytes when bits 0 and 1 of the first byte are
\* both set and 2 bytes otherwise; the word given to the matcher is the
\* little-endian value of exactly these bytes, byte i contributing
\* b << 8*i; the length read is 2 or 4.
C16_ReadLength ==
  (out.op = "call" /\ out.enabled /\ out.exc = "none") =>
    /\ out.len = IF 0 \in ToBits(out.mem[1]) /\ 1 \in ToBits(out.mem[1])
                 THEN 4 ELSE 2
    /\ out.len \in {2, 4}
    /\ out.insn = UNION {{b + 8 * i : b \in ToBits(out.mem[i + 1])} :
                           i \in 0..(out.len - 1)}

\* A two-byte request with bytes behind the instruction that are not zero,
\* and whose two bytes differ.
C16_Witness ==
  /\ Served
  /\ out.len = 2
  /\ out.mem[1] # out.mem[2]
  /\ out.mem[3] # 0
  /\ out.hit # 0

\* The two outcomes of a request: an entry matched and the result is the
\* rendered template with the length read, or none matched and the result
\* is the one of the builtin disassembler.
MatchOutcome ==
  /\ out.hit # 0
  /\ out.builtin = 0
  /\ out.string = KeyRender(Hit.format_string, out.fields)
  /\ out.length = out.len
  /\ out.len \in {2, 4}
BuiltinOutcome ==
  /\ out.hit = 0
  /\ out.builtin = 1
  /\ out.string = builtin_disassemble(out.mem).string
  /\ out.length = builtin_disassemble(out.mem).length

\* C17: every request made while the display is on ends in exactly one of
\* the two outcomes.
C17_Original ==
  (out.op = "call" /\ out.enabled) =>
    /\ MatchOutcome \/ BuiltinOutcome
    /\ ~(MatchOutcome /\ BuiltinOutcome)

\* C18: while custom-instruction-display is off a request is answered by
\* the builtin disassembler alone: no entry is matched, no session is looked
\* up or created, and the cache is left as it was.
C18_DisplayOff ==
  [][
      (out'.op = "call" /\ ~enabled) =>
        /\ cache' = cache
        /\ nextId' = nextId
        /\ out'.hit = 0
        /\ out'.sid = 0
        /\ ~out'.built
        /\ out'.builtin = 1
        /\ out'.string = builtin_disassemble(out'.mem).string
        /\ out'.length = builtin_disassemble(out'.mem).length
    ]_vars

\* A request with the display off whose context has a session with an
\* entry that matches the instruction.
C18_Witness ==
  /\ out.op = "call"
  /\ ~out.enabled
  /\ out.builtin = 1
  /\ out.conn \in DOMAIN cache
  /\ LET n == builtin_disassemble(out.mem).length
     IN  compare_with_insns(Catalog,
                            bytes_to_insn(SubSeq(out.mem, 1, n), {}, 0), n) # 0

\* C19: setting custom-instruction-filename to "remote:" is setting it to
\* "remote:insn.xml": the handler leaves "remote:insn.xml" as the stored
\* value, and the request that follows in a remote connection builds its
\* session from the annex insn.xml of the remote.
C19_RemoteDefault ==
  [][
      /\ (out'.op = "set_filename" /\ out'.value = Path_remote) =>
           path' = Path_remote_default
      /\ (/\ out.op = "set_filename" /\ out.value = Path_remote
          /\ out'.op = "call" /\ out'.enabled
          /\ ConnType(selected) = "remote") =>
           /\ out'.built
           /\ out'.exc = "none"
           /\ cache'[selected].insns = create_insns(Tree(<<"remote">>)).insns
    ]_vars

\* A session built from the annex after "remote:" was set, one of whose
\* entries the request matches.
C19_Witness ==
  /\ Served
  /\ out.built
  /\ ConnType(out.conn) = "remote"
  /\ path = Path_remote_default
  /\ Catalog = create_insns(DocRemote).insns
  /\ out.hit # 0

\* C20: register_disassembler(d, arch) returns the disassembler that was
\* registered for exactly the key arch before the call, None when there was
\* none; afterwards the key maps to d, or is absent when d is None; the
\* registrations of all other keys are as before.
C20_Register ==
  [][
      (out'.op = "register" /\ out'.exc = "none") =>
        LET a == out'.architecture
            d == out'.disassembler
            before == _disassembly_registry
            after == _disassembly_registry'
        IN  /\ out'.old = IF a \in DOMAIN before THEN before[a] ELSE "None"
            /\ IF d = "None" THEN a \notin DOMAIN after
               ELSE a \in DOMAIN after /\ after[a] = d
            /\ \A k \in KeyChoices \ {a} :
                 /\ (k \in DOMAIN after) <=> (k \in DOMAIN before)
                 /\ (k \in DOMAIN before) => (after[k] = before[k])
    ]_vars

\* A registration that replaced another disassembler of the same key while
\* two other keys, one of them the key None, hold disassemblers different
\* from the one registered.
C20_Witness ==
  /\ out.op = "register"
  /\ out.exc = "none"
  /\ out.architecture = "riscv:rv32"
  /\ out.disassembler = "analyzing_disassembler"
  /\ out.old = "riscv_disassembler"
  /\ _disassembly_registry["riscv:rv32"] = "analyzing_disassembler"
  /\ "None" \in DOMAIN _disassembly_registry
  /\ "riscv:rv64" \in DOMAIN _disassembly_registry
  /\ _disassembly_registry["riscv:rv64"] = "riscv_disassembler"

\* C21: after any sequence of register_disassembler calls, those rejected
\* with TypeError included, _print_insn is _perform_disassembly exactly
\* when the registry holds a disassembler and None exactly when it is empty.
C21_EntryPoint ==
  /\ (_print_insn = "_perform_disassembly") <=> (DOMAIN _disassembly_registry # {})
  /\ (_print_insn = "None") <=> (DOMAIN _disassembly_registry = {})

\* A rejected call made after the last disassembler was removed.
C21_Witness ==
  /\ out.op = "register"
  /\ out.exc = "TypeError"
  /\ DOMAIN _disassembly_registry = {}
  /\ _print_insn = "None"

\* The disassembler the last request was dispatched to and the name of its
\* architecture: a request that reached RISCVDisassembler.__call__ was
\* dispatched to riscv_disassembler.
Dispatched == IF out.op = "call" THEN "riscv_disassembler" ELSE out.disassembler
DispatchedName == IF out.op = "call" THEN out.info.arch ELSE out.architecture

\* C22: a request for the architecture name N is dispatched to the
\* disassembler registered for N when there is one, otherwise to the one
\* registered under the key None when there is one, otherwise to none.
C22_Dispatch ==
  (out.op \in {"call", "dispatch"}) =>
    LET N == DispatchedName
        r == _disassembly_registry
    IN  /\ (N \in DOMAIN r) => (Dispatched = r[N])
        /\ (N \notin DOMAIN r /\ "None" \in DOMAIN r) => (Dispatched = r["None"])
        /\ (N \notin DOMAIN r /\ "None" \notin DOMAIN r) => (Dispatched = "None")

\* A request of an architecture that has its own disassembler while
\* another one is registered for all architectures.
C22_Witness ==
  /\ out.op = "dispatch"
  /\ out.architecture \in DOMAIN _disassembly_registry
  /\ "None" \in DOMAIN _disassembly_registry
  /\ _disassembly_registry["None"] # _disassembly_registry[out.architecture]
  /\ out.disassembler = _disassembly_registry[out.architecture]

\* Bit i of the word of the request.
WordBit(i) == IF i \in out.insn THEN 1 ELSE 0

\* C23: for a CL entry uimm is ([5]<<2) | ([6]<<6) | ([12:10]<<3): word
\* bits 10, 11 and 12 give uimm bits 3, 4 and 5, and imm is uimm
\* sign-extended as a 7-bit value.
C23_Original ==
  (Decoded /\ Hit.cls = "CL") =>
    /\ Get(out.fields, "uimm")
         = IntV(WordBit(5) * 4 + WordBit(6) * 64
                + WordBit(10) * 8 + WordBit(11) * 16 + WordBit(12) * 32)
    /\ Get(out.fields, "imm") = IntV(LowSigned(Get(out.fields, "uimm").n, 7))

\* The registers of a CS entry: rd and rs1 from word bits [4:2], rs2 from
\* word bits [9:7], through the compressed register table.
CS_Registers ==
  /\ Get(out.fields, "rd")
       = StrV(cx_reg_names[WordBit(4) * 4 + WordBit(3) * 2 + WordBit(2) + 1])
  /\ Get(out.fields, "rs1") = Get(out.fields, "rd")
  /\ Get(out.fields, "rs2")
       = StrV(cx_reg_names[WordBit(9) * 4 + WordBit(8) * 2 + WordBit(7) + 1])

C25_Original ==
  (/\ Decoded
   /\ HasKey(out.fields, "imm")
   /\ ImmAsAddr(Get(out.fields, "imm")) < 0) =>
     LET addr == ImmAsAddr(Get(out.fields, "imm"))
         k == IF out.info.arch = "riscv:rv64" THEN 16 ELSE 8
     IN  Get(out.fields, "dest")
           = StrV(format_address(out.info.arch, TargetDigits(k, addr)))

\* C26: between its creation and its discard a session never changes: a
\* step leaves every session that stays in the cache as it was, with its
\* entry list and the fixed bits, mask, length and template of each entry;
\* a request of a connection that has a session, with or without a match,
\* and a change of custom-instruction-display leave the whole cache as it
\* was and construct no session; the source is fetched only by the request
\* that creates a session, once.
C26_Frozen ==
  [][
      /\ \A c \in (DOMAIN cache) \cap (DOMAIN cache') : cache'[c] = cache[c]
      /\ (out'.op = "call" /\ selected \in DOMAIN cache) =>
           (cache' = cache /\ nextId' = nextId)
      /\ (out'.op = "set_display") => (cache' = cache /\ nextId' = nextId)
      /\ (nextId' # nextId) =>
           /\ out'.op = "call" /\ out'.built
           /\ nextId' = nextId + 1
           /\ selected \notin DOMAIN cache
           /\ cache'[selected].id = nextId'
    ]_vars

\* A request matched by a session that an earlier request built under a
\* filename that has changed since.
C26_Witness ==
  /\ Served
  /\ ~out.built
  /\ out.hit # 0
  /\ out.sepoch # epoch
  /\ Catalog # CustomInstructionHandler(path, out.conn).insns

C28_Removal ==
  [][
      /\ (out'.op = "connection_removed") =>
           /\ DOMAIN cache' = (DOMAIN cache) \ {out'.conn}
           /\ \A c \in DOMAIN cache' : cache'[c] = cache[c]
           /\ (out'.conn \notin DOMAIN cache) => (cache' = cache)
      /\ \A c \in (DOMAIN cache') \ (DOMAIN cache) :
           out'.op = "call" /\ out'.conn = c /\ out'.enabled
      /\ \A c1, c2 \in DOMAIN cache' :
           (cache'[c1].id = cache'[c2].id) => (c1 = c2)
    ]_vars

\* connection_removed has discarded the session of its connection while
\* two other sessions stay cached.
C28_Witness ==
  /\ out.op = "connection_removed"
  /\ out.sid > 0
  /\ Cardinality(DOMAIN cache) = 2

\* The word of the request with bit b flipped.
Flipped(b) == IF b \in out.insn THEN out.insn \ {b} ELSE out.insn \cup {b}

\* C29: for every class the select mask is disjoint from the word bits
\* that the decoder of the class reads for its registers and immediates:
\* the decoded fields are the same whatever a mask bit of the word holds,
\* and the entry matches the word whatever a bit outside the mask holds.
C29_Disjoint ==
  Decoded =>
    /\ \A b \in Hit.mask :
         ClassFields(Hit.cls, Flipped(b), out.info)
           = ClassFields(Hit.cls, out.insn, out.info)
    /\ \A b \in WordBits(Hit) \ Hit.mask :
         compare_with_insn(Flipped(b), Hit, out.len)

\* A CI word whose bit 12, next to the function code, is an operand bit.
C29_Witness ==
  /\ Decoded
  /\ Hit.cls = "CI"
  /\ 12 \in out.insn
  /\ 12 \notin Hit.mask
  /\ ClassFields("CI", out.insn \ {12}, out.info)
       # ClassFields("CI", out.insn, out.info)

\* The request built a session from an annex the remote of its connection
\* holds.
C30_Annex == SubSeq(path, Len(Path_remote) + 1, Len(path))
C30_Fetched ==
  /\ out.op = "call"
  /\ out.built
  /\ StartsWith(path, Path_remote)
  /\ ConnType(out.conn) \in {"remote", "extended-remote"}
  /\ C30_Annex \in RemoteAnnexes

\* The payloads of the replies to the packets at the offsets of sent, in
\* the order of sent.
RECURSIVE Payloads(_, _, _)
Payloads(conn, annex, sent) ==
  IF sent = <<>> THEN <<>>
  ELSE Tail(send_remote_packet(conn, annex, Head(sent), fetch_len))
         \o Payloads(conn, annex, Tail(sent))

\* C30: the fetch loop sends the read requests of the windows of fetch_len
\* bytes at the offsets 0, 200, 400, ... in this order, every reply before
\* the last starts with 'm' and the last packet sent is the first whose
\* reply starts with 'l', the string is the payloads in the order of
\* arrival, and it is the document of a remote that answers each request
\* with the bytes of its window.
C30_FetchLoop ==
  C30_Fetched =>
    LET got == fetch_loop(out.conn, C30_Annex, 0, <<>>)
        n == Len(got.sent)
        reply(i) == send_remote_packet(out.conn, C30_Annex, got.sent[i],
                                       fetch_len)
    IN  /\ got.ok
        /\ ~got.hang
        /\ \A i \in 1..n : got.sent[i] = (i - 1) * fetch_len
        /\ \A i \in 1..n : Head(reply(i)) = IF i = n THEN "l" ELSE "m"
        /\ got.xml = Payloads(out.conn, C30_Annex, got.sent)
        /\ got.xml = XmlText(<<"remote">>)
        /\ ParseXml(got.xml).ok
        /\ cache[out.conn].insns = create_insns(ParseXml(got.xml).root).insns

\* A fetch of three windows: two replies 'm' and the last, shorter, 'l'.
C30_Witness ==
  /\ C30_Fetched
  /\ fetch_loop(out.conn, C30_Annex, 0, <<>>).sent = <<0, 200, 400>>
  /\ Len(XmlText(<<"remote">>)) > 2 * fetch_len
  /\ Len(XmlText(<<"remote">>)) < 3 * fetch_len

====
